------------------------ MODULE TripExecutionProofs ------------------------
(***************************************************************************)
(* What TripExecution guarantees for every set of trips, plans, workers    *)
(* and keys: type correctness, its safety invariants, the hand-over of     *)
(* CURRENT, and that it implements TripContract.                           *)
(***************************************************************************)
EXTENDS TripExecution, PlanVersionsProofs

Phases == {"NONE", "PLAN_REVIEW", "CONFIRMED", "EXECUTING", "REPLAN_REVIEW", "COMPLETED"}

Running == {"EXECUTING", "REPLAN_REVIEW", "COMPLETED"}

-----------------------------------------------------------------------------
(* The inductive invariant.                                                *)

\* A row belongs to a trip, has a version and carries a day.
Rows ==
    \A p \in Plan :
        /\ HasPlan(p) => owner[p] \in Trip /\ version[p] \in {1, 2} /\ tasks[p] \in Itinerary
        /\ ~HasPlan(p) => owner[p] = None

\* UNIQUE (trip_id, version).
VersionsUnique ==
    \A p, q \in Plan :
        HasPlan(p) /\ HasPlan(q) /\ owner[p] = owner[q] /\ version[p] = version[q] => p = q

\* The phase of a trip and the plan it needs.
TripShape ==
    \A t \in Trip :
        /\ tripStatus[t] \in Phases
        /\ tripStatus[t] # "NONE" <=> \E p \in Plan : owner[p] = t /\ version[p] = 1 /\ HasPlan(p)
        /\ tripStatus[t] = "REPLAN_REVIEW" =>
               \E p \in Plan : owner[p] = t /\ version[p] = 2 /\ status[p] = "PROPOSED"

\* A V1 waits while the trip is in its first review, and gives way to a V2 only.
FirstShape ==
    \A p \in Plan : HasPlan(p) /\ version[p] = 1 =>
        /\ status[p] = "PROPOSED" <=> tripStatus[owner[p]] = "PLAN_REVIEW"
        /\ status[p] # "REJECTED"
        /\ status[p] = "SUPERSEDED" =>
               \E q \in Plan : /\ owner[q] = owner[p] /\ version[q] = 2
                               /\ status[q] = "CURRENT"

\* A V2 hangs under the V1 of its trip, and their statuses go together.
SecondShape ==
    \A p \in Plan : HasPlan(p) /\ version[p] = 2 =>
        /\ tripStatus[owner[p]] \in Running
        /\ parent[p] \in Plan /\ HasPlan(parent[p])
        /\ owner[parent[p]] = owner[p] /\ version[parent[p]] = 1
        /\ status[p] = "PROPOSED" <=> tripStatus[owner[p]] = "REPLAN_REVIEW"
        /\ status[p] # "SUPERSEDED"
        /\ status[parent[p]] = IF status[p] = "CURRENT" THEN "SUPERSEDED" ELSE "CURRENT"

PlanInv == Rows /\ VersionsUnique /\ TripShape /\ FirstShape /\ SecondShape

\* A replanning request holds a base of its trip.
ReplanShape ==
    \A w \in Worker : replan[w] # None =>
        /\ HasPlan(replan[w].base)
        /\ owner[replan[w].base] = replan[w].trip
        /\ version[replan[w].base] = 1

\* Nothing is recorded before the trip has started.
EventsAfterStart == \A e \in events : tripStatus[e.trip] \in Running

\* A V1 that has not been replaced still has work left while the trip runs.
UnfinishedWhileOnV1 ==
    \A t \in Trip : tripStatus[t] \in {"EXECUTING", "REPLAN_REVIEW"} =>
        \A p \in PlansOf(t, "CURRENT") :
            version[p] = 1 => ~(Ids(tasks[p]) \subseteq TerminalTasks(t))

IInv ==
    /\ TypeOK
    /\ PlanInv
    /\ ReplanShape
    /\ EventsAfterStart
    /\ EventsOnAdoptedPlans
    /\ EndsOnce
    /\ CompletedIsDone
    /\ UnfinishedWhileOnV1
    /\ UnfinishedUnlessShortened

-----------------------------------------------------------------------------
(* Type correctness.                                                       *)

LEMMA InitTypeOK == Init => TypeOK
  BY ReplansAreBounded DEF Init, TypeOK, PlanInit, PlanTypeOK

LEMMA PlanStepTypes ==
    ASSUME TypeOK, NEW t \in Trip, NEW p \in Plan, PlanStep(t, p)
    PROVE  TypeOK'
<1>1. PlanTypeOK'
  BY RegisterTypes, DecisionTypes DEF PlanStep, TypeOK
<1>2. UNCHANGED <<events, replan, begun>>
  BY DEF PlanStep
<1> QED  BY <1>1, <1>2 DEF TypeOK

LEMMA EventStepTypes ==
    ASSUME TypeOK, NEW t \in Trip, NEW p \in Plan, EventStep(t, p)
    PROVE  TypeOK'
<1>1. PICK k \in Key, x \in TaskId, y \in EventType : CreateEvent(t, k, p, x, y)
  BY DEF EventStep
<1>2. events' \subseteq Event
  BY <1>1 DEF CreateEvent, TypeOK, Event
<1>3. tripStatus' \in [Trip -> TripStatus \cup {"NONE"}]
  <2>1. "COMPLETED" \in TripStatus
    BY DEF TripStatus
  <2> QED
    BY <1>1, <2>1, UpdateTripType DEF CreateEvent, TypeOK, PlanTypeOK
<1> QED
  BY <1>1, <1>2, <1>3 DEF CreateEvent, TypeOK, PlanTypeOK

LEMMA ReplanStepTypes ==
    ASSUME TypeOK, NEW t \in Trip, NEW p \in Plan, ReplanStep(t, p)
    PROVE  TypeOK'
<1>1. PICK w \in Worker :
        \/ \E locked \in SUBSET TaskId : ReadSubmitted(w, t, p, locked)
        \/ ReadFromEvents(w, t, p)
        \/ \E x \in TaskId, locked \in SUBSET TaskId : ReadForAdjustment(w, t, p, x, locked)
        \/ \E d \in Itinerary : RegisterReplan(w, p, d)
        \/ AbandonReplan(w)
  BY DEF ReplanStep
<1>2. ASSUME NEW frozen \in SUBSET Nat, NEW s, BeginReplan(w, t, p, frozen, s)
      PROVE  TypeOK'
  <2>1. [trip |-> t, base |-> p, frozen |-> frozen, source |-> s] \in Replan
    BY <1>2 DEF BeginReplan, Replan
  <2> QED
    BY <1>2, <2>1 DEF BeginReplan, TypeOK, PlanTypeOK, planVars
<1>3. \A ids : Frozen(tasks[p], ids) \in SUBSET Nat
  <2>1. CASE tasks[p] = <<>>
    BY <2>1 DEF Frozen
  <2>2. CASE tasks[p] \in Itinerary
    BY <2>2, ItinerariesAreDays DEF Frozen
  <2> QED
    BY <2>1, <2>2 DEF TypeOK, PlanTypeOK
<1>4. CASE \E locked \in SUBSET TaskId : ReadSubmitted(w, t, p, locked)
  BY <1>2, <1>3, <1>4 DEF ReadSubmitted
<1>5. CASE ReadFromEvents(w, t, p)
  BY <1>2, <1>3, <1>5 DEF ReadFromEvents
<1>6. CASE \E x \in TaskId, locked \in SUBSET TaskId : ReadForAdjustment(w, t, p, x, locked)
  BY <1>2, <1>3, <1>6 DEF ReadForAdjustment
<1>7. CASE \E d \in Itinerary : RegisterReplan(w, p, d)
  <2>1. PICK d \in Itinerary : RegisterReplan(w, p, d)
    BY <1>7
  <2>2. replan[w] \in Replan
    BY <2>1 DEF RegisterReplan, TypeOK
  <2>3. RegisterV2(replan[w].trip, p, replan[w].base, d)
    BY <2>1 DEF RegisterReplan
  <2>4. replan[w].trip \in Trip /\ replan[w].base \in Plan
    BY <2>2 DEF Replan
  <2>6. PlanTypeOK'
    BY <2>3, <2>4, RegisterTypes DEF TypeOK
  <2> QED
    BY <2>1, <2>6 DEF RegisterReplan, TypeOK
<1>8. CASE AbandonReplan(w)
  BY <1>8 DEF AbandonReplan, TypeOK, PlanTypeOK, planVars
<1> QED
  BY <1>1, <1>4, <1>5, <1>6, <1>7, <1>8

LEMMA TypeStep == TypeOK /\ [Next]_vars => TypeOK'
<1> SUFFICES ASSUME TypeOK, [Next]_vars PROVE TypeOK'
  OBVIOUS
<1>1. CASE UNCHANGED vars
  BY <1>1 DEF vars, planVars, TypeOK, PlanTypeOK
<1>2. CASE Next
  BY <1>2, PlanStepTypes, EventStepTypes, ReplanStepTypes DEF Next
<1> QED
  BY <1>1, <1>2

\* Every row, event and request of the store has the types of its columns,
\* whatever the order of the calls.
THEOREM TypeCorrect == Spec => []TypeOK
<1> QED
  BY InitTypeOK, TypeStep, PTL DEF Spec

-----------------------------------------------------------------------------
(* The plan rows and the trip status.                                      *)

LEMMA InitPlanInv == Init => PlanInv
  BY NoneIsFresh
     DEF Init, PlanInit, PlanInv, Rows, VersionsUnique, TripShape, FirstShape, SecondShape,
         HasPlan, Phases

\* The other plan of a trip with the same version is the same plan.
LEMMA SamePlan ==
    ASSUME PlanInv, NEW p \in Plan, NEW q \in Plan, HasPlan(p), HasPlan(q),
           owner[p] = owner[q], version[p] = version[q]
    PROVE  p = q
  BY DEF PlanInv, VersionsUnique

LEMMA RegisterV1Inv ==
    ASSUME TypeOK, PlanInv, NEW t \in Trip, NEW p \in Plan, NEW d \in Itinerary,
           RegisterV1(t, p, d)
    PROVE  PlanInv'
<1>1. ~HasPlan(p) /\ ~VersionTaken(t, 1) /\ owner[p] = None
  BY DEF RegisterV1, InsertProposed, PlanInv, Rows
<1>2. tripStatus[t] = "NONE"
  BY <1>1 DEF RegisterV1, PlanInv, TripShape, VersionTaken
<1>3. /\ status' = [status EXCEPT ![p] = "PROPOSED"]
      /\ owner' = [owner EXCEPT ![p] = t]
      /\ version' = [version EXCEPT ![p] = 1]
      /\ parent' = [parent EXCEPT ![p] = None]
      /\ tasks' = [tasks EXCEPT ![p] = d]
      /\ tripStatus' = [tripStatus EXCEPT ![t] = "PLAN_REVIEW"]
  BY DEF RegisterV1, InsertProposed
<1>4. \A q \in Plan : HasPlan(q) => owner[q] # t
  BY <1>1, <1>2 DEF PlanInv, Rows, TripShape, SecondShape, Running, VersionTaken
<1> USE DEF TypeOK, PlanTypeOK, HasPlan, PlanInv
<1>5. Rows'
  BY <1>1, <1>3 DEF Rows
<1>6. VersionsUnique'
  BY <1>1, <1>3, <1>4 DEF VersionsUnique
<1>7. TripShape'
  BY <1>1, <1>2, <1>3, <1>4 DEF TripShape, Phases
<1>8. FirstShape'
  BY <1>1, <1>2, <1>3, <1>4 DEF FirstShape, Rows
<1>9. SecondShape'
  BY <1>1, <1>2, <1>3, <1>4 DEF SecondShape, Rows
<1> QED
  BY <1>5, <1>6, <1>7, <1>8, <1>9

LEMMA RegisterV2Inv ==
    ASSUME TypeOK, PlanInv, NEW t \in Trip, NEW p \in Plan, NEW b \in Plan,
           NEW d \in Itinerary, RegisterV2(t, p, b, d), version[b] = 1
    PROVE  PlanInv'
<1>1. /\ ~HasPlan(p) /\ owner[p] = None
      /\ HasPlan(b) /\ owner[b] = t /\ status[b] = "CURRENT"
      /\ \A q \in Plan : HasPlan(q) /\ owner[q] = t => version[q] = 1
  BY DEF RegisterV2, InsertProposed, PlanInv, Rows, VersionTaken
<1>2. \A q \in Plan : HasPlan(q) /\ owner[q] = t => q = b
  BY <1>1, SamePlan
<1>3. /\ status' = [status EXCEPT ![p] = "PROPOSED"]
      /\ owner' = [owner EXCEPT ![p] = t]
      /\ version' = [version EXCEPT ![p] = 2]
      /\ parent' = [parent EXCEPT ![p] = b]
      /\ tasks' = [tasks EXCEPT ![p] = d]
      /\ tripStatus' = [tripStatus EXCEPT ![t] = "REPLAN_REVIEW"]
      /\ tripStatus[t] = "EXECUTING"
  BY DEF RegisterV2, InsertProposed, UpdateTrip
<1> USE DEF TypeOK, PlanTypeOK, HasPlan, PlanInv
<1>5. Rows'
  BY <1>1, <1>3 DEF Rows
<1>6. VersionsUnique'
  BY <1>1, <1>3 DEF VersionsUnique
<1>7. TripShape'
  BY <1>1, <1>3 DEF TripShape, Phases
<1>8. FirstShape'
  BY <1>1, <1>2, <1>3 DEF FirstShape, Rows
<1>9. SecondShape'
  BY <1>1, <1>2, <1>3 DEF SecondShape, Rows, Running
<1> QED
  BY <1>5, <1>6, <1>7, <1>8, <1>9

LEMMA ConfirmInv ==
    ASSUME TypeOK, PlanInv, NEW t \in Trip, NEW p \in Plan, Confirm(t, p)
    PROVE  PlanInv'
<1>1. /\ HasPlan(p) /\ owner[p] = t /\ version[p] = 1
      /\ status[p] = "PROPOSED" /\ tripStatus[t] = "PLAN_REVIEW"
  BY PlanMoves, TripMoves DEF Confirm
<1>2. \A q \in Plan : HasPlan(q) /\ owner[q] = t => q = p
  BY <1>1, SamePlan DEF PlanInv, Rows, SecondShape, Running
<1>3. /\ status' = [status EXCEPT ![p] = "CURRENT"]
      /\ tripStatus' = [tripStatus EXCEPT ![t] = "CONFIRMED"]
      /\ UNCHANGED <<owner, version, parent, tasks>>
  BY <1>1 DEF Confirm, UpdateTrip, UnchangedRows
<1> USE DEF TypeOK, PlanTypeOK, HasPlan, PlanInv
<1>5. Rows'
  BY <1>1, <1>3 DEF Rows
<1>6. VersionsUnique'
  BY <1>1, <1>3 DEF VersionsUnique
<1>7. TripShape'
  BY <1>1, <1>3 DEF TripShape, Phases
<1>8. FirstShape'
  BY <1>1, <1>2, <1>3 DEF FirstShape, Rows
<1>9. SecondShape'
  BY <1>1, <1>2, <1>3 DEF SecondShape, Rows, Running
<1> QED
  BY <1>5, <1>6, <1>7, <1>8, <1>9

LEMMA StartInv ==
    ASSUME TypeOK, PlanInv, NEW t \in Trip, StartExecution(t)
    PROVE  PlanInv'
<1>1. /\ tripStatus' = [tripStatus EXCEPT ![t] = IF @ = "CONFIRMED" THEN "EXECUTING" ELSE @]
      /\ UNCHANGED <<status, owner, version, parent, tasks>>
  BY DEF StartExecution, UpdateTrip, UnchangedRows
<1> USE DEF TypeOK, PlanTypeOK, HasPlan, PlanInv
<1>5. Rows' /\ VersionsUnique'
  BY <1>1 DEF Rows, VersionsUnique
<1>7. TripShape'
  BY <1>1 DEF TripShape, Phases
<1>8. FirstShape'
  BY <1>1 DEF FirstShape, Rows
<1>9. SecondShape'
  BY <1>1 DEF SecondShape, Rows, Running
<1> QED
  BY <1>5, <1>7, <1>8, <1>9

\* What accept_v2 and reject_v2 find and write.
LEMMA DecisionFinds ==
    ASSUME PlanInv, NEW t \in Trip, NEW p \in Plan, AcceptV2(t, p) \/ RejectV2(t, p)
    PROVE  /\ HasPlan(p) /\ owner[p] = t /\ version[p] = 2 /\ status[p] = "PROPOSED"
           /\ tripStatus[t] = "REPLAN_REVIEW"
           /\ parent[p] \in Plan /\ HasPlan(parent[p])
           /\ owner[parent[p]] = t /\ version[parent[p]] = 1 /\ status[parent[p]] = "CURRENT"
           /\ \A q \in Plan : HasPlan(q) /\ owner[q] = t => q \in {p, parent[p]}
<1>1. HasPlan(p) /\ owner[p] = t /\ version[p] = 2 /\ status[p] = "PROPOSED"
  BY PlanMoves DEF AcceptV2, RejectV2, IsV2Of
<1>2. /\ tripStatus[t] = "REPLAN_REVIEW"
      /\ parent[p] \in Plan /\ HasPlan(parent[p])
      /\ owner[parent[p]] = t /\ version[parent[p]] = 1 /\ status[parent[p]] = "CURRENT"
  BY <1>1 DEF PlanInv, SecondShape
<1>3. \A q \in Plan : HasPlan(q) /\ owner[q] = t => q \in {p, parent[p]}
  BY <1>1, <1>2, SamePlan DEF PlanInv, Rows
<1> QED
  BY <1>1, <1>2, <1>3

LEMMA AcceptInv ==
    ASSUME TypeOK, PlanInv, NEW t \in Trip, NEW p \in Plan, AcceptV2(t, p)
    PROVE  PlanInv'
<1> DEFINE b == parent[p]
<1>1. /\ HasPlan(p) /\ owner[p] = t /\ version[p] = 2 /\ status[p] = "PROPOSED"
      /\ tripStatus[t] = "REPLAN_REVIEW"
      /\ b \in Plan /\ HasPlan(b) /\ owner[b] = t /\ version[b] = 1 /\ status[b] = "CURRENT"
      /\ \A q \in Plan : HasPlan(q) /\ owner[q] = t => q \in {p, b}
  BY DecisionFinds
<1>3. /\ status' = [status EXCEPT ![b] = "SUPERSEDED", ![p] = "CURRENT"]
      /\ tripStatus' = [tripStatus EXCEPT ![t] = "EXECUTING"]
      /\ UNCHANGED <<owner, version, parent, tasks>>
  BY <1>1 DEF AcceptV2, Promote, UpdateTrip, UnchangedRows
<1> HIDE DEF b
<1> USE DEF TypeOK, PlanTypeOK, HasPlan, PlanInv
<1>5. Rows'
  BY <1>1, <1>3 DEF Rows
<1>6. VersionsUnique'
  BY <1>1, <1>3 DEF VersionsUnique
<1>7. TripShape'
  BY <1>1, <1>3 DEF TripShape, Phases
<1>8. FirstShape'
  BY <1>1, <1>3 DEF FirstShape, Rows
<1>9. SecondShape'
  BY <1>1, <1>3 DEF SecondShape, Rows, Running, b
<1> QED
  BY <1>5, <1>6, <1>7, <1>8, <1>9

LEMMA RejectInv ==
    ASSUME TypeOK, PlanInv, NEW t \in Trip, NEW p \in Plan, RejectV2(t, p)
    PROVE  PlanInv'
<1> DEFINE b == parent[p]
<1>1. /\ HasPlan(p) /\ owner[p] = t /\ version[p] = 2 /\ status[p] = "PROPOSED"
      /\ tripStatus[t] = "REPLAN_REVIEW"
      /\ b \in Plan /\ HasPlan(b) /\ owner[b] = t /\ version[b] = 1 /\ status[b] = "CURRENT"
      /\ \A q \in Plan : HasPlan(q) /\ owner[q] = t => q \in {p, b}
  BY DecisionFinds
<1>3. /\ status' = [status EXCEPT ![p] = "REJECTED"]
      /\ tripStatus' = [tripStatus EXCEPT ![t] = "EXECUTING"]
      /\ UNCHANGED <<owner, version, parent, tasks>>
  BY <1>1 DEF RejectV2, UpdateTrip, UnchangedRows
<1> HIDE DEF b
<1> USE DEF TypeOK, PlanTypeOK, HasPlan, PlanInv
<1>5. Rows'
  BY <1>1, <1>3 DEF Rows
<1>6. VersionsUnique'
  BY <1>1, <1>3 DEF VersionsUnique
<1>7. TripShape'
  BY <1>1, <1>3 DEF TripShape, Phases
<1>8. FirstShape'
  BY <1>1, <1>3 DEF FirstShape, Rows
<1>9. SecondShape'
  BY <1>1, <1>3 DEF SecondShape, Rows, Running, b
<1> QED
  BY <1>5, <1>6, <1>7, <1>8, <1>9

LEMMA CompleteInv ==
    ASSUME TypeOK, PlanInv, NEW t \in Trip, UpdateTrip(t, "EXECUTING", "COMPLETED"),
           UNCHANGED <<status, owner, version, parent, tasks>>
    PROVE  PlanInv'
<1> USE DEF TypeOK, PlanTypeOK, HasPlan, PlanInv, UpdateTrip
<1>1. Rows' /\ VersionsUnique'
  BY DEF Rows, VersionsUnique
<1>2. TripShape'
  BY DEF TripShape, Phases
<1>3. FirstShape'
  BY DEF FirstShape, Rows
<1>4. SecondShape'
  BY DEF SecondShape, Rows, Running
<1> QED
  BY <1>1, <1>2, <1>3, <1>4

LEMMA PlanInvUnchanged ==
    ASSUME PlanInv, UNCHANGED <<tripStatus, status, owner, version, parent, tasks>>
    PROVE  PlanInv'
  BY DEF PlanInv, Rows, VersionsUnique, TripShape, FirstShape, SecondShape, HasPlan

\* The three kinds of steps and what each may do to a row: a refined view of
\* Next that the remaining proofs share.
RegisterStep(t, p, w) == \E d \in Itinerary : RegisterReplan(w, p, d)

ReadStep(t, p, w) ==
    \/ \E locked \in SUBSET TaskId : ReadSubmitted(w, t, p, locked)
    \/ ReadFromEvents(w, t, p)
    \/ \E x \in TaskId, locked \in SUBSET TaskId : ReadForAdjustment(w, t, p, x, locked)
    \/ AbandonReplan(w)

LEMMA ReadsChangeNothing ==
    ASSUME NEW t, NEW p, NEW w, ReadStep(t, p, w)
    PROVE  UNCHANGED <<tripStatus, status, owner, version, parent, tasks, reported, events>>
  BY DEF ReadStep, ReadSubmitted, ReadFromEvents, ReadForAdjustment, BeginReplan,
         AbandonReplan, planVars

\* A request registers under the base it has read.
LEMMA RegisterStepFinds ==
    ASSUME TypeOK, ReplanShape, NEW w \in Worker, NEW p \in Plan, NEW d \in Itinerary,
           RegisterReplan(w, p, d)
    PROVE  \E t \in Trip, b \in Plan : /\ RegisterV2(t, p, b, d) /\ version[b] = 1
                                      /\ t = replan[w].trip /\ b = replan[w].base
<1>1. replan[w] \in Replan /\ replan[w] # None
  BY DEF RegisterReplan, TypeOK
<1>2. replan[w].trip \in Trip /\ replan[w].base \in Plan
  BY <1>1 DEF Replan
<1> QED
  BY <1>1, <1>2 DEF RegisterReplan, ReplanShape

LEMMA PlanInvStep ==
    ASSUME TypeOK, PlanInv, ReplanShape, [Next]_vars
    PROVE  PlanInv'
<1>1. CASE UNCHANGED vars
  BY <1>1, PlanInvUnchanged DEF vars, planVars
<1>2. ASSUME NEW t \in Trip, NEW p \in Plan, PlanStep(t, p)
      PROVE  PlanInv'
  <2>1. CASE \E d \in Itinerary : RegisterV1(t, p, d)
    BY <2>1, RegisterV1Inv
  <2>2. CASE Confirm(t, p)
    BY <2>2, ConfirmInv
  <2>3. CASE ConfirmReplay(t, p) \/ AcceptReplay(t, p) \/ RejectReplay(t, p)
    BY <2>3, PlanInvUnchanged DEF ConfirmReplay, AcceptReplay, RejectReplay, UnchangedRows
  <2>4. CASE AcceptV2(t, p)
    BY <2>4, AcceptInv
  <2>5. CASE RejectV2(t, p)
    BY <2>5, RejectInv
  <2>6. CASE StartExecution(t)
    BY <2>6, StartInv
  <2> QED
    BY <1>2, <2>1, <2>2, <2>3, <2>4, <2>5, <2>6 DEF PlanStep, Decision
<1>3. ASSUME NEW t \in Trip, NEW p \in Plan, EventStep(t, p)
      PROVE  PlanInv'
  BY <1>3, CompleteInv, PlanInvUnchanged DEF EventStep, CreateEvent
<1>4. ASSUME NEW t \in Trip, NEW p \in Plan, ReplanStep(t, p)
      PROVE  PlanInv'
  <2>1. PICK w \in Worker : ReadStep(t, p, w) \/ RegisterStep(t, p, w)
    BY <1>4 DEF ReplanStep, ReadStep, RegisterStep
  <2>2. CASE ReadStep(t, p, w)
    BY <2>2, ReadsChangeNothing, PlanInvUnchanged
  <2>3. CASE RegisterStep(t, p, w)
    BY <2>3, RegisterStepFinds, RegisterV2Inv DEF RegisterStep
  <2> QED
    BY <2>1, <2>2, <2>3
<1> QED
  BY <1>1, <1>2, <1>3, <1>4 DEF Next

-----------------------------------------------------------------------------
(* What a step does to a plan row, a trip and the event log.               *)

Still == UNCHANGED <<tripStatus, status, owner, version, parent, tasks, events>>

Writes(t, p) ==
    /\ UNCHANGED events
    /\ \/ \E d \in Itinerary : RegisterV1(t, p, d)
       \/ \E d \in Itinerary, b \in Plan : RegisterV2(t, p, b, d) /\ version[b] = 1
       \/ Confirm(t, p) \/ AcceptV2(t, p) \/ RejectV2(t, p) \/ StartExecution(t)

\* Every step is still for plans and events, writes plan rows or writes an event.
LEMMA ThreeKinds ==
    ASSUME TypeOK, ReplanShape, [Next]_vars
    PROVE  \/ Still
           \/ \E t \in Trip, p \in Plan : Writes(t, p) \/ EventStep(t, p)
<1>1. CASE UNCHANGED vars
  BY <1>1 DEF vars, planVars, Still
<1>2. ASSUME NEW t \in Trip, NEW p \in Plan, PlanStep(t, p)
      PROVE  Still \/ Writes(t, p)
  BY <1>2 DEF PlanStep, Decision, Writes, Still, ConfirmReplay, AcceptReplay, RejectReplay,
              UnchangedRows
<1>3. ASSUME NEW t \in Trip, NEW p \in Plan, ReplanStep(t, p)
      PROVE  Still \/ \E u \in Trip : Writes(u, p)
  <2>1. PICK w \in Worker : ReadStep(t, p, w) \/ RegisterStep(t, p, w)
    BY <1>3 DEF ReplanStep, ReadStep, RegisterStep
  <2>2. CASE ReadStep(t, p, w)
    BY <2>2, ReadsChangeNothing DEF Still
  <2>3. CASE RegisterStep(t, p, w)
    <3>1. PICK d \in Itinerary : RegisterReplan(w, p, d)
      BY <2>3 DEF RegisterStep
    <3>2. PICK u \in Trip, b \in Plan : RegisterV2(u, p, b, d) /\ version[b] = 1
      BY <3>1, RegisterStepFinds
    <3>3. UNCHANGED events
      BY <3>1 DEF RegisterReplan
    <3> QED
      BY <3>2, <3>3 DEF Writes
  <2> QED
    BY <2>1, <2>2, <2>3
<1> QED
  BY <1>1, <1>2, <1>3 DEF Next

\* The effect of a step on the row q: it is never moved to another trip nor
\* edited (a PlanVersion is immutable), and once adopted it stays adopted.
LEMMA RowKept ==
    ASSUME TypeOK, PlanInv, ReplanShape, [Next]_vars, NEW q \in Plan, HasPlan(q)
    PROVE  /\ HasPlan(q)'
           /\ owner'[q] = owner[q] /\ version'[q] = version[q] /\ tasks'[q] = tasks[q]
           /\ status[q] \in {"CURRENT", "SUPERSEDED"} => status'[q] \in {"CURRENT", "SUPERSEDED"}
<1> USE DEF TypeOK, PlanTypeOK, HasPlan
<1>1. CASE Still
  BY <1>1 DEF Still
<1>2. ASSUME NEW t \in Trip, NEW p \in Plan, EventStep(t, p)
      PROVE  UNCHANGED <<status, owner, version, tasks>>
  BY <1>2 DEF EventStep, CreateEvent
<1>3. ASSUME NEW t \in Trip, NEW p \in Plan, Writes(t, p)
      PROVE  /\ HasPlan(q)'
             /\ owner'[q] = owner[q] /\ version'[q] = version[q] /\ tasks'[q] = tasks[q]
             /\ status[q] \in {"CURRENT", "SUPERSEDED"} => status'[q] \in {"CURRENT", "SUPERSEDED"}
  <2>1. CASE \E d \in Itinerary : RegisterV1(t, p, d)
    BY <2>1 DEF RegisterV1, InsertProposed
  <2>2. CASE \E d \in Itinerary, b \in Plan : RegisterV2(t, p, b, d)
    BY <2>2 DEF RegisterV2, InsertProposed
  <2>3. CASE Confirm(t, p)
    BY <2>3 DEF Confirm, UnchangedRows
  <2>4. CASE AcceptV2(t, p)
    <3>1. status[p] = "PROPOSED" /\ parent[p] \in Plan /\ status[parent[p]] = "CURRENT"
      BY <2>4, DecisionFinds
    <3> QED
      BY <2>4, <3>1 DEF AcceptV2, Promote, UnchangedRows
  <2>5. CASE RejectV2(t, p)
    <3>1. status[p] = "PROPOSED"
      BY <2>5, DecisionFinds
    <3> QED
      BY <2>5, <3>1 DEF RejectV2, UnchangedRows
  <2>6. CASE StartExecution(t)
    BY <2>6 DEF StartExecution, UnchangedRows
  <2> QED
    BY <1>3, <2>1, <2>2, <2>3, <2>4, <2>5, <2>6 DEF Writes
<1> QED
  BY <1>1, <1>2, <1>3, ThreeKinds

\* The effect of a step on the status of trip u.
LEMMA PhaseSteps ==
    ASSUME TypeOK, PlanInv, ReplanShape, [Next]_vars, NEW u \in Trip
    PROVE  /\ tripStatus[u] \in Running => tripStatus'[u] \in Running
           /\ tripStatus'[u] \in {"EXECUTING", "REPLAN_REVIEW"} =>
                  tripStatus[u] \in {"CONFIRMED", "EXECUTING", "REPLAN_REVIEW"}
           /\ tripStatus'[u] = "COMPLETED" /\ ~(\E p \in Plan : EventStep(u, p)) =>
                  tripStatus[u] = "COMPLETED"
<1> USE DEF TypeOK, PlanTypeOK, Running
<1>1. CASE Still
  BY <1>1 DEF Still
<1>2. ASSUME NEW t \in Trip, NEW p \in Plan, EventStep(t, p)
      PROVE  /\ tripStatus[t] = "EXECUTING" /\ tripStatus'[t] \in {"EXECUTING", "COMPLETED"}
             /\ u # t => tripStatus'[u] = tripStatus[u]
  BY <1>2 DEF EventStep, CreateEvent, UpdateTrip
<1>3. ASSUME NEW t \in Trip, NEW p \in Plan, Writes(t, p)
      PROVE  /\ u # t => tripStatus'[u] = tripStatus[u]
             /\ \/ tripStatus'[t] = tripStatus[t]
                \/ tripStatus[t] = "NONE" /\ tripStatus'[t] = "PLAN_REVIEW"
                \/ tripStatus[t] = "PLAN_REVIEW" /\ tripStatus'[t] = "CONFIRMED"
                \/ tripStatus[t] = "CONFIRMED" /\ tripStatus'[t] = "EXECUTING"
                \/ tripStatus[t] = "EXECUTING" /\ tripStatus'[t] = "REPLAN_REVIEW"
                \/ tripStatus[t] = "REPLAN_REVIEW" /\ tripStatus'[t] = "EXECUTING"
  <2>1. CASE \E d \in Itinerary : RegisterV1(t, p, d)
    BY <2>1 DEF RegisterV1
  <2>2. CASE \E d \in Itinerary, b \in Plan : RegisterV2(t, p, b, d)
    BY <2>2 DEF RegisterV2, UpdateTrip
  <2>3. CASE Confirm(t, p)
    BY <2>3 DEF Confirm, UpdateTrip
  <2>4. CASE AcceptV2(t, p)
    BY <2>4 DEF AcceptV2, UpdateTrip
  <2>5. CASE RejectV2(t, p)
    BY <2>5 DEF RejectV2, UpdateTrip
  <2>6. CASE StartExecution(t)
    BY <2>6 DEF StartExecution, UpdateTrip
  <2> QED
    BY <1>3, <2>1, <2>2, <2>3, <2>4, <2>5, <2>6 DEF Writes
<1> QED
  BY <1>1, <1>2, <1>3, ThreeKinds

\* The effect of a step on the event log.
LEMMA LogGrows ==
    ASSUME TypeOK, ReplanShape, [Next]_vars
    PROVE  \/ UNCHANGED events /\ ~\E t \in Trip, p \in Plan : EventStep(t, p)
           \/ \E t \in Trip, p \in Plan, k \in Key, x \in TaskId, y \in EventType :
                CreateEvent(t, k, p, x, y)
<1>1. CASE \E t \in Trip, p \in Plan : EventStep(t, p)
  BY <1>1 DEF EventStep
<1>2. CASE ~\E t \in Trip, p \in Plan : EventStep(t, p)
  BY <1>2, ThreeKinds DEF Still, Writes
<1> QED
  BY <1>1, <1>2

LEMMA ReplanShapeStep ==
    ASSUME TypeOK, PlanInv, ReplanShape, [Next]_vars
    PROVE  ReplanShape'
<1> SUFFICES ASSUME NEW w \in Worker, replan'[w] # None
             PROVE  /\ status'[replan'[w].base] # "NONE"
                    /\ owner'[replan'[w].base] = replan'[w].trip
                    /\ version'[replan'[w].base] = 1
  BY DEF ReplanShape, HasPlan
<1>1. ASSUME NEW b \in Plan, HasPlan(b), version[b] = 1
      PROVE  status'[b] # "NONE" /\ owner'[b] = owner[b] /\ version'[b] = 1
  BY <1>1, RowKept DEF HasPlan
<1>2. CASE replan'[w] = replan[w]
  <2>1. replan[w] \in Replan
    BY <1>2 DEF TypeOK
  <2>2. /\ replan[w].base \in Plan /\ HasPlan(replan[w].base)
        /\ owner[replan[w].base] = replan[w].trip /\ version[replan[w].base] = 1
    BY <1>2, <2>1 DEF ReplanShape, Replan
  <2> QED
    BY <1>1, <1>2, <2>2
<1>3. CASE replan'[w] # replan[w]
  <2>1. PICK t \in Trip, p \in Plan : PlanStep(t, p) \/ EventStep(t, p) \/ ReplanStep(t, p)
    BY <1>3 DEF Next, vars
  <2>2. ReplanStep(t, p)
    BY <1>3, <2>1 DEF PlanStep, EventStep, CreateEvent
  <2>3. PICK v \in Worker : ReadStep(t, p, v) \/ RegisterStep(t, p, v)
    BY <2>2 DEF ReplanStep, ReadStep, RegisterStep
  <2>4. PICK frozen, s : BeginReplan(v, t, p, frozen, s) /\ IsCurrentV1(t, p)
    <3>1. ~RegisterStep(t, p, v) /\ ~AbandonReplan(v)
      BY <1>3 DEF RegisterStep, RegisterReplan, AbandonReplan, TypeOK
    <3> QED
      BY <2>3, <3>1 DEF ReadStep, ReadSubmitted, ReadFromEvents, ReadForAdjustment
  <2>5. v = w /\ replan'[w] = [trip |-> t, base |-> p, frozen |-> frozen, source |-> s]
    BY <1>3, <2>4 DEF BeginReplan, TypeOK
  <2>6. HasPlan(p) /\ owner[p] = t /\ version[p] = 1
    BY <2>4 DEF IsCurrentV1, IsCurrent, HasPlan
  <2> QED
    BY <1>1, <2>5, <2>6
<1> QED
  BY <1>2, <1>3

LEMMA EventsAfterStartStep ==
    ASSUME TypeOK, PlanInv, ReplanShape, EventsAfterStart, [Next]_vars
    PROVE  EventsAfterStart'
<1> SUFFICES ASSUME NEW e \in events' PROVE tripStatus'[e.trip] \in Running
  BY DEF EventsAfterStart
<1>1. e.trip \in Trip /\ tripStatus[e.trip] \in Running
  <2>1. CASE UNCHANGED events
    BY <2>1 DEF EventsAfterStart, TypeOK, Event
  <2>2. ASSUME NEW t \in Trip, NEW p \in Plan, NEW k \in Key, NEW x \in TaskId,
               NEW y \in EventType, CreateEvent(t, k, p, x, y)
        PROVE  e.trip \in Trip /\ tripStatus[e.trip] \in Running
    BY <2>2 DEF CreateEvent, EventsAfterStart, TypeOK, Event, Running
  <2> QED
    BY <2>1, <2>2, LogGrows
<1> QED
  BY <1>1, PhaseSteps

LEMMA EventsOnAdoptedStep ==
    ASSUME TypeOK, PlanInv, ReplanShape, EventsOnAdoptedPlans, [Next]_vars
    PROVE  EventsOnAdoptedPlans'
<1> SUFFICES ASSUME NEW e \in events'
             PROVE  /\ status'[e.plan] \in {"CURRENT", "SUPERSEDED"}
                    /\ owner'[e.plan] = e.trip
                    /\ e.task \in Ids(tasks'[e.plan])
  BY DEF EventsOnAdoptedPlans, Ids
<1>1. /\ e.plan \in Plan /\ status[e.plan] \in {"CURRENT", "SUPERSEDED"}
      /\ owner[e.plan] = e.trip /\ e.task \in Ids(tasks[e.plan])
  <2>1. CASE UNCHANGED events
    BY <2>1 DEF EventsOnAdoptedPlans, TypeOK, Event
  <2>2. ASSUME NEW t \in Trip, NEW p \in Plan, NEW k \in Key, NEW x \in TaskId,
               NEW y \in EventType, CreateEvent(t, k, p, x, y)
        PROVE  /\ e.plan \in Plan /\ status[e.plan] \in {"CURRENT", "SUPERSEDED"}
               /\ owner[e.plan] = e.trip /\ e.task \in Ids(tasks[e.plan])
    BY <2>2 DEF CreateEvent, IsCurrent, EventsOnAdoptedPlans, TypeOK, Event
  <2> QED
    BY <2>1, <2>2, LogGrows
<1>2. HasPlan(e.plan)
  BY <1>1 DEF HasPlan
<1> QED
  BY <1>1, <1>2, RowKept

LEMMA EndsOnceStep ==
    ASSUME TypeOK, ReplanShape, EndsOnce, [Next]_vars
    PROVE  EndsOnce'
<1>1. CASE UNCHANGED events
  BY <1>1 DEF EndsOnce
<1>2. ASSUME NEW t \in Trip, NEW p \in Plan, NEW k \in Key, NEW x \in TaskId,
             NEW y \in EventType, CreateEvent(t, k, p, x, y)
      PROVE  EndsOnce'
  <2> DEFINE new == [trip |-> t, key |-> k, task |-> x, plan |-> p, type |-> y]
  <2>1. events' = events \cup {new}
    BY <1>2 DEF CreateEvent
  <2>2. y \in Terminal => ~\E e \in events : e.trip = t /\ e.task = x /\ e.type \in Terminal
    BY <1>2 DEF CreateEvent, TerminalTasks, TasksWith
  <2> QED
    BY <2>1, <2>2 DEF EndsOnce
<1> QED
  BY <1>1, <1>2, LogGrows

-----------------------------------------------------------------------------
(* What the invariant of the rows means for the plan in force.             *)

LEMMA OneCurrentHolds ==
    ASSUME TypeOK, PlanInv
    PROVE  OneCurrent
<1> SUFFICES ASSUME NEW t \in Trip, NEW p \in PlansOf(t, "CURRENT"), NEW q \in PlansOf(t, "CURRENT")
             PROVE  p = q
  BY DEF OneCurrent
<1>1. /\ p \in Plan /\ q \in Plan /\ HasPlan(p) /\ HasPlan(q)
      /\ owner[p] = t /\ owner[q] = t /\ status[p] = "CURRENT" /\ status[q] = "CURRENT"
  BY DEF PlansOf, HasPlan
<1>2. version[p] \in {1, 2} /\ version[q] \in {1, 2}
  BY <1>1 DEF PlanInv, Rows
<1>3. ASSUME NEW a \in Plan, NEW b \in Plan, HasPlan(a), HasPlan(b), owner[a] = owner[b],
             version[a] = 2, version[b] = 1, status[a] = "CURRENT"
      PROVE  status[b] = "SUPERSEDED"
  BY <1>3, SamePlan DEF PlanInv, SecondShape
<1> QED
  BY <1>1, <1>2, <1>3, SamePlan

LEMMA PhaseMatches ==
    ASSUME TypeOK, PlanInv
    PROVE  PhaseMatchesPlans
<1> SUFFICES ASSUME NEW t \in Trip
             PROVE  /\ tripStatus[t] \in Phases
                    /\ PlansOf(t, "CURRENT") = {} <=> tripStatus[t] \in {"NONE", "PLAN_REVIEW"}
                    /\ PlansOf(t, "PROPOSED") # {} <=>
                           tripStatus[t] \in {"PLAN_REVIEW", "REPLAN_REVIEW"}
  BY DEF PhaseMatchesPlans, Phases
<1> USE DEF PlanInv, HasPlan
<1>1. tripStatus[t] \in Phases
  BY DEF TripShape
<1>2. \A p \in Plan : HasPlan(p) => version[p] \in {1, 2}
  BY DEF Rows
<1>3. \A p \in Plan : owner[p] = t => tripStatus[t] # "NONE"
  <2>1. SUFFICES ASSUME NEW p \in Plan, owner[p] = t PROVE tripStatus[t] # "NONE"
    OBVIOUS
  <2>2. HasPlan(p)
    BY <2>1, NoneIsFresh DEF Rows
  <2>3. CASE version[p] = 1
    BY <2>1, <2>2, <2>3 DEF TripShape
  <2>4. CASE version[p] = 2
    BY <2>1, <2>2, <2>4 DEF SecondShape, Running
  <2> QED
    BY <1>2, <2>2, <2>3, <2>4
<1>4. ASSUME tripStatus[t] \notin {"NONE", "PLAN_REVIEW"}
      PROVE  PlansOf(t, "CURRENT") # {}
  <2>1. PICK p \in Plan : owner[p] = t /\ version[p] = 1 /\ HasPlan(p)
    BY <1>4 DEF TripShape
  <2>2. status[p] \in {"CURRENT", "SUPERSEDED"}
    BY <1>4, <2>1 DEF FirstShape, TypeOK, PlanTypeOK, PlanStatus
  <2> QED
    BY <2>1, <2>2 DEF FirstShape, PlansOf
<1>5. ASSUME tripStatus[t] \in {"NONE", "PLAN_REVIEW"}
      PROVE  PlansOf(t, "CURRENT") = {}
  <2>1. SUFFICES ASSUME NEW p \in Plan, owner[p] = t, status[p] = "CURRENT" PROVE FALSE
    BY DEF PlansOf
  <2>2. tripStatus[t] = "PLAN_REVIEW"
    BY <1>3, <1>5, <2>1
  <2>3. CASE version[p] = 1
    BY <2>1, <2>2, <2>3 DEF FirstShape
  <2>4. CASE version[p] = 2
    BY <2>1, <2>2, <2>4 DEF SecondShape, Running
  <2> QED
    BY <1>2, <2>1, <2>3, <2>4
<1>6. ASSUME tripStatus[t] \in {"PLAN_REVIEW", "REPLAN_REVIEW"}
      PROVE  PlansOf(t, "PROPOSED") # {}
  BY <1>6 DEF PlansOf, TripShape, FirstShape
<1>7. ASSUME NEW p \in PlansOf(t, "PROPOSED")
      PROVE  tripStatus[t] \in {"PLAN_REVIEW", "REPLAN_REVIEW"}
  BY <1>2, <1>7 DEF PlansOf, FirstShape, SecondShape
<1> QED
  BY <1>1, <1>4, <1>5, <1>6, <1>7

LEMMA Decidable ==
    ASSUME TypeOK, PlanInv
    PROVE  ReplanIsDecidable
<1> SUFFICES ASSUME NEW t \in Trip, tripStatus[t] = "REPLAN_REVIEW"
             PROVE  \E p \in PlansOf(t, "PROPOSED") :
                        version[p] = 2 /\ PlansOf(t, "CURRENT") = {parent[p]}
  BY DEF ReplanIsDecidable
<1>1. PICK p \in Plan : owner[p] = t /\ version[p] = 2 /\ status[p] = "PROPOSED"
  BY DEF PlanInv, TripShape
<1>2. parent[p] \in PlansOf(t, "CURRENT")
  BY <1>1 DEF PlanInv, SecondShape, HasPlan, PlansOf
<1> QED
  BY <1>1, <1>2, OneCurrentHolds DEF OneCurrent, PlansOf

-----------------------------------------------------------------------------
(* Completion.                                                             *)

\* An event ends its task when it is terminal, and no other.
LEMMA EndsItsTask ==
    ASSUME NEW t, NEW k, NEW p, NEW x, NEW y, CreateEvent(t, k, p, x, y)
    PROVE  /\ TerminalTasks(t)' = TerminalTasks(t) \cup (IF y \in Terminal THEN {x} ELSE {})
           /\ \A u : u # t => TerminalTasks(u)' = TerminalTasks(u)
<1> DEFINE new == [trip |-> t, key |-> k, task |-> x, plan |-> p, type |-> y]
<1>1. events' = events \cup {new}
  BY DEF CreateEvent
<1>2. \A u, z : z \in TerminalTasks(u) <=>
                  \E e \in events : e.trip = u /\ e.type \in Terminal /\ e.task = z
  BY DEF TerminalTasks, TasksWith
<1>3. \A u, z : z \in TerminalTasks(u)' <=>
                  \E e \in events' : e.trip = u /\ e.type \in Terminal /\ e.task = z
  BY DEF TerminalTasks, TasksWith
<1>4. new.trip = t /\ new.type = y /\ new.task = x
  OBVIOUS
<1>5. \A u, z : z \in TerminalTasks(u)' <=>
                  z \in TerminalTasks(u) \/ (u = t /\ y \in Terminal /\ z = x)
  <2> HIDE DEF new
  <2> QED
    BY <1>1, <1>2, <1>3, <1>4
<1> QED
  BY <1>5

\* The plans of a completed trip stay as they are.
LEMMA CompletedRows ==
    ASSUME TypeOK, PlanInv, ReplanShape, [Next]_vars, NEW q \in Plan, NEW u \in Trip,
           tripStatus[u] = "COMPLETED", owner'[q] = u
    PROVE  owner[q] = u /\ status'[q] = status[q] /\ tasks'[q] = tasks[q]
<1> USE DEF TypeOK, PlanTypeOK
<1>1. CASE Still
  BY <1>1 DEF Still
<1>2. ASSUME NEW t \in Trip, NEW p \in Plan, EventStep(t, p)
      PROVE  UNCHANGED <<status, owner, tasks>>
  BY <1>2 DEF EventStep, CreateEvent
<1>3. ASSUME NEW t \in Trip, NEW p \in Plan, Writes(t, p)
      PROVE  owner[q] = u /\ status'[q] = status[q] /\ tasks'[q] = tasks[q]
  <2>1. CASE \E d \in Itinerary : RegisterV1(t, p, d)
    BY <2>1 DEF RegisterV1, InsertProposed
  <2>2. CASE \E d \in Itinerary, b \in Plan : RegisterV2(t, p, b, d)
    BY <2>2 DEF RegisterV2, InsertProposed
  <2>3. CASE Confirm(t, p)
    BY <2>3, TripMoves DEF Confirm, UnchangedRows
  <2>4. CASE AcceptV2(t, p)
    <3>1. /\ tripStatus[t] = "REPLAN_REVIEW" /\ owner[p] = t
          /\ parent[p] \in Plan /\ owner[parent[p]] = t
      BY <2>4, DecisionFinds
    <3> QED
      BY <2>4, <3>1 DEF AcceptV2, Promote, UnchangedRows
  <2>5. CASE RejectV2(t, p)
    <3>1. tripStatus[t] = "REPLAN_REVIEW" /\ owner[p] = t
      BY <2>5, DecisionFinds
    <3> QED
      BY <2>5, <3>1 DEF RejectV2, UnchangedRows
  <2>6. CASE StartExecution(t)
    BY <2>6 DEF StartExecution, UnchangedRows
  <2> QED
    BY <1>3, <2>1, <2>2, <2>3, <2>4, <2>5, <2>6 DEF Writes
<1> QED
  BY <1>1, <1>2, <1>3, ThreeKinds

LEMMA CompletedIsDoneStep ==
    ASSUME TypeOK, PlanInv, ReplanShape, CompletedIsDone, [Next]_vars
    PROVE  CompletedIsDone'
<1> SUFFICES ASSUME NEW u \in Trip, tripStatus'[u] = "COMPLETED",
                    NEW q \in Plan, owner'[q] = u, status'[q] = "CURRENT"
             PROVE  Ids(tasks'[q]) \subseteq TerminalTasks(u)'
  BY DEF CompletedIsDone, PlansOf, Ids
<1>1. ASSUME tripStatus[u] = "COMPLETED"
      PROVE  Ids(tasks'[q]) \subseteq TerminalTasks(u)
  <2>1. owner[q] = u /\ status[q] = "CURRENT" /\ tasks'[q] = tasks[q]
    BY <1>1, CompletedRows
  <2> QED
    BY <1>1, <2>1 DEF CompletedIsDone, PlansOf
<1>2. CASE UNCHANGED events /\ ~\E t \in Trip, p \in Plan : EventStep(t, p)
  <2>1. tripStatus[u] = "COMPLETED"
    BY <1>2, PhaseSteps
  <2>2. TerminalTasks(u)' = TerminalTasks(u)
    BY <1>2 DEF TerminalTasks, TasksWith
  <2> QED
    BY <1>1, <2>1, <2>2
<1>3. ASSUME NEW t \in Trip, NEW p \in Plan, NEW k \in Key, NEW x \in TaskId,
             NEW y \in EventType, CreateEvent(t, k, p, x, y)
      PROVE  Ids(tasks'[q]) \subseteq TerminalTasks(u)'
  <2>1. CASE tripStatus[u] = "COMPLETED"
    BY <1>1, <1>3, <2>1, EndsItsTask
  <2>2. CASE tripStatus[u] # "COMPLETED"
    <3>1. u = t /\ y \in Terminal /\ AllEnded(t, p, x)
      BY <1>3, <2>2 DEF CreateEvent, UpdateTrip, TypeOK, PlanTypeOK
    <3>2. q \in PlansOf(t, "CURRENT") /\ p \in PlansOf(t, "CURRENT") /\ tasks' = tasks
      BY <1>3, <3>1 DEF CreateEvent, IsCurrent, PlansOf
    <3>3. q = p
      BY <3>2, OneCurrentHolds DEF OneCurrent
    <3> QED
      BY <1>3, <3>1, <3>2, <3>3, EndsItsTask DEF AllEnded
  <2> QED
    BY <2>1, <2>2
<1> QED
  BY <1>2, <1>3, LogGrows

\* A V1 in force in a running trip was so before the step, or the trip has
\* just started.
LEMMA FirstInForce ==
    ASSUME TypeOK, PlanInv, ReplanShape, [Next]_vars, NEW q \in Plan, NEW u \in Trip,
           tripStatus'[u] \in {"EXECUTING", "REPLAN_REVIEW"},
           owner'[q] = u, status'[q] = "CURRENT", version'[q] = 1
    PROVE  /\ owner[q] = u /\ status[q] = "CURRENT" /\ version[q] = 1 /\ tasks'[q] = tasks[q]
           /\ tripStatus[u] \in {"CONFIRMED", "EXECUTING", "REPLAN_REVIEW"}
<1>0. tripStatus[u] \in {"CONFIRMED", "EXECUTING", "REPLAN_REVIEW"}
  BY PhaseSteps
<1> USE DEF TypeOK, PlanTypeOK
<1>1. CASE Still
  BY <1>0, <1>1 DEF Still
<1>2. ASSUME NEW t \in Trip, NEW p \in Plan, EventStep(t, p)
      PROVE  UNCHANGED <<status, owner, version, tasks>>
  BY <1>2 DEF EventStep, CreateEvent
<1>3. ASSUME NEW t \in Trip, NEW p \in Plan, Writes(t, p)
      PROVE  owner[q] = u /\ status[q] = "CURRENT" /\ version[q] = 1 /\ tasks'[q] = tasks[q]
  <2>1. CASE \E d \in Itinerary : RegisterV1(t, p, d)
    BY <2>1 DEF RegisterV1, InsertProposed
  <2>2. CASE \E d \in Itinerary, b \in Plan : RegisterV2(t, p, b, d)
    BY <2>2 DEF RegisterV2, InsertProposed
  <2>3. CASE Confirm(t, p)
    BY <1>0, <2>3, TripMoves DEF Confirm, UnchangedRows
  <2>4. CASE AcceptV2(t, p)
    <3>1. version[p] = 2
      BY <2>4, DecisionFinds
    <3> QED
      BY <2>4, <3>1 DEF AcceptV2, Promote, UnchangedRows
  <2>5. CASE RejectV2(t, p)
    BY <2>5 DEF RejectV2, UnchangedRows
  <2>6. CASE StartExecution(t)
    BY <2>6 DEF StartExecution, UnchangedRows
  <2> QED
    BY <1>3, <2>1, <2>2, <2>3, <2>4, <2>5, <2>6 DEF Writes
<1> QED
  BY <1>0, <1>1, <1>2, <1>3, ThreeKinds

\* An event that leaves the trip running leaves work in the plan in force.
LEMMA EventLeavesWork ==
    ASSUME TypeOK, PlanInv, [Next]_vars, NEW u \in Trip, NEW q \in Plan,
           owner[q] = u, status[q] = "CURRENT", ~(Ids(tasks[q]) \subseteq TerminalTasks(u)),
           tripStatus'[u] \in {"EXECUTING", "REPLAN_REVIEW"},
           NEW t \in Trip, NEW p \in Plan, NEW k \in Key, NEW x \in TaskId,
           NEW y \in EventType, CreateEvent(t, k, p, x, y)
    PROVE  ~(Ids(tasks[q]) \subseteq TerminalTasks(u)')
<1>1. CASE u # t \/ y \notin Terminal
  BY <1>1, EndsItsTask
<1>2. CASE u = t /\ y \in Terminal
  <2>1. q \in PlansOf(t, "CURRENT") /\ p \in PlansOf(t, "CURRENT")
    BY <1>2 DEF CreateEvent, IsCurrent, PlansOf
  <2>2. q = p
    BY <2>1, OneCurrentHolds DEF OneCurrent
  <2>3. ~AllEnded(t, p, x)
    BY <1>2 DEF CreateEvent, UpdateTrip, TypeOK, PlanTypeOK
  <2> QED
    BY <1>2, <2>2, <2>3, EndsItsTask DEF AllEnded
<1> QED
  BY <1>1, <1>2

LEMMA UnfinishedStep ==
    ASSUME TypeOK, PlanInv, ReplanShape, EventsAfterStart, UnfinishedWhileOnV1, [Next]_vars
    PROVE  UnfinishedWhileOnV1'
<1> SUFFICES ASSUME NEW u \in Trip, tripStatus'[u] \in {"EXECUTING", "REPLAN_REVIEW"},
                    NEW q \in Plan, owner'[q] = u, status'[q] = "CURRENT", version'[q] = 1
             PROVE  ~(Ids(tasks'[q]) \subseteq TerminalTasks(u)')
  BY DEF UnfinishedWhileOnV1, PlansOf, Ids
<1>1. /\ owner[q] = u /\ status[q] = "CURRENT" /\ version[q] = 1 /\ tasks'[q] = tasks[q]
      /\ tripStatus[u] \in {"CONFIRMED", "EXECUTING", "REPLAN_REVIEW"}
  BY FirstInForce
<1>2. ~(Ids(tasks[q]) \subseteq TerminalTasks(u))
  <2>1. CASE tripStatus[u] = "CONFIRMED"
    <3>1. TerminalTasks(u) = {}
      BY <2>1 DEF EventsAfterStart, Running, TerminalTasks, TasksWith
    <3>2. tasks[q] \in Itinerary
      BY <1>1 DEF PlanInv, Rows, HasPlan
    <3>3. tasks[q] \in Seq([id : TaskId, slot : Nat]) /\ tasks[q] # <<>>
      BY <3>2, ItinerariesAreDays
    <3>4. 1 \in DOMAIN tasks[q]
      BY <3>3
    <3> QED
      BY <3>1, <3>4 DEF Ids
  <2>2. CASE tripStatus[u] \in {"EXECUTING", "REPLAN_REVIEW"}
    BY <1>1, <2>2 DEF UnfinishedWhileOnV1, PlansOf
  <2> QED
    BY <1>1, <2>1, <2>2
<1>3. CASE UNCHANGED events
  <2>1. TerminalTasks(u)' = TerminalTasks(u)
    BY <1>3 DEF TerminalTasks, TasksWith
  <2> QED
    BY <1>1, <1>2, <2>1
<1>4. CASE ~UNCHANGED events
  BY <1>1, <1>2, <1>4, LogGrows, EventLeavesWork
<1> QED
  BY <1>3, <1>4, LogGrows

\* A V2 in force was so before the step, with the same rows, or has just been
\* accepted.
LEMMA SecondInForce ==
    ASSUME TypeOK, PlanInv, ReplanShape, [Next]_vars, NEW q \in Plan, NEW u \in Trip,
           owner'[q] = u, status'[q] = "CURRENT", version'[q] = 2
    PROVE  /\ owner[q] = u /\ version[q] = 2
           /\ tasks'[q] = tasks[q] /\ parent'[q] = parent[q]
           /\ status[q] = "CURRENT" \/ (AcceptV2(u, q) /\ UNCHANGED events)
<1> USE DEF TypeOK, PlanTypeOK
<1> DEFINE Goal == /\ owner[q] = u /\ version[q] = 2
                   /\ tasks'[q] = tasks[q] /\ parent'[q] = parent[q]
                   /\ status[q] = "CURRENT" \/ (AcceptV2(u, q) /\ UNCHANGED events)
<1>1. CASE Still
  BY <1>1 DEF Still
<1>2. ASSUME NEW t \in Trip, NEW p \in Plan, EventStep(t, p)
      PROVE  UNCHANGED <<status, owner, version, parent, tasks>>
  BY <1>2 DEF EventStep, CreateEvent
<1>3. ASSUME NEW t \in Trip, NEW p \in Plan, Writes(t, p)
      PROVE  Goal
  <2>1. CASE \E d \in Itinerary : RegisterV1(t, p, d)
    BY <2>1 DEF RegisterV1, InsertProposed
  <2>2. CASE \E d \in Itinerary, b \in Plan : RegisterV2(t, p, b, d)
    BY <2>2 DEF RegisterV2, InsertProposed
  <2>3. CASE Confirm(t, p)
    <3>1. version[p] = 1
      BY <2>3 DEF Confirm
    <3> QED
      BY <2>3, <3>1 DEF Confirm, UnchangedRows
  <2>4. CASE AcceptV2(t, p)
    <3>1. /\ owner[p] = t /\ status' = [status EXCEPT ![parent[p]] = "SUPERSEDED", ![p] = "CURRENT"]
          /\ UNCHANGED <<owner, version, parent, tasks, events>>
      BY <1>3, <2>4, DecisionFinds DEF AcceptV2, Promote, UnchangedRows, Writes
    <3>2. CASE q = p
      BY <2>4, <3>1, <3>2
    <3>3. CASE q # p
      BY <3>1, <3>3
    <3> QED
      BY <3>2, <3>3
  <2>5. CASE RejectV2(t, p)
    BY <2>5 DEF RejectV2, UnchangedRows
  <2>6. CASE StartExecution(t)
    BY <2>6 DEF StartExecution, UnchangedRows
  <2> QED
    BY <1>3, <2>1, <2>2, <2>3, <2>4, <2>5, <2>6 DEF Writes
<1> QED
  BY <1>1, <1>2, <1>3, ThreeKinds

LEMMA UnshortenedStep ==
    ASSUME TypeOK, PlanInv, ReplanShape, EventsAfterStart, UnfinishedWhileOnV1,
           UnfinishedUnlessShortened, [Next]_vars
    PROVE  UnfinishedUnlessShortened'
<1> SUFFICES ASSUME NEW u \in Trip, tripStatus'[u] \in {"EXECUTING", "REPLAN_REVIEW"},
                    NEW q \in Plan, owner'[q] = u, status'[q] = "CURRENT", KeepsTasks(q)'
             PROVE  ~(Ids(tasks'[q]) \subseteq TerminalTasks(u)')
  BY DEF UnfinishedUnlessShortened, PlansOf, Ids
<1>1. CASE version'[q] = 1
  BY <1>1, UnfinishedStep DEF UnfinishedWhileOnV1, PlansOf, Ids
<1>2. CASE version'[q] # 1
  <2>1. version'[q] = 2 /\ SuffixFits(tasks'[parent'[q]], tasks'[q])
    <3>1. PlanInv' /\ HasPlan(q)'
      BY PlanInvStep DEF HasPlan
    <3> QED
      BY <1>2, <3>1 DEF KeepsTasks, PlanInv, Rows, HasPlan
  <2>2. /\ owner[q] = u /\ version[q] = 2 /\ tasks'[q] = tasks[q] /\ parent'[q] = parent[q]
        /\ status[q] = "CURRENT" \/ (AcceptV2(u, q) /\ UNCHANGED events)
    BY <2>1, SecondInForce
  <2>3. HasPlan(q)
    BY <2>2, DecisionFinds DEF HasPlan
  <2>4. parent[q] \in Plan /\ HasPlan(parent[q]) /\ owner[parent[q]] = u
        /\ version[parent[q]] = 1 /\ tripStatus[u] \in Running
    BY <2>2, <2>3 DEF PlanInv, SecondShape
  <2>5. tasks'[parent[q]] = tasks[parent[q]]
    BY <2>4, RowKept
  <2>6. SuffixFits(tasks[parent[q]], tasks[q])
    BY <2>1, <2>2, <2>5
  <2>7. CASE status[q] = "CURRENT"
    <3>1. tripStatus[u] \in {"EXECUTING", "REPLAN_REVIEW"}
      BY <2>4, PhaseSteps DEF Running
    <3>2. ~(Ids(tasks[q]) \subseteq TerminalTasks(u))
      BY <2>2, <2>6, <2>7, <3>1 DEF UnfinishedUnlessShortened, KeepsTasks, PlansOf
    <3>3. CASE UNCHANGED events
      BY <2>2, <3>2, <3>3 DEF TerminalTasks, TasksWith
    <3>4. CASE ~UNCHANGED events
      BY <2>2, <2>7, <3>2, <3>4, LogGrows, EventLeavesWork
    <3> QED
      BY <3>3, <3>4
  <2>8. CASE AcceptV2(u, q) /\ UNCHANGED events
    <3>1. tripStatus[u] = "REPLAN_REVIEW" /\ status[parent[q]] = "CURRENT"
      BY <2>8, DecisionFinds
    <3>2. ~(Ids(tasks[parent[q]]) \subseteq TerminalTasks(u))
      BY <2>4, <3>1 DEF UnfinishedWhileOnV1, PlansOf
    <3>3. Ids(tasks[parent[q]]) \subseteq Ids(tasks[q])
      <4>1. /\ tasks[parent[q]] \in Seq([id : TaskId, slot : Nat])
            /\ tasks[q] \in Seq([id : TaskId, slot : Nat])
        BY <2>3, <2>4, ItinerariesAreDays DEF PlanInv, Rows
      <4>2. \A i \in DOMAIN tasks[parent[q]] :
               i \in DOMAIN tasks[q] /\ tasks[q][i].id = tasks[parent[q]][i].id
        BY <2>6, <4>1 DEF SuffixFits
      <4> QED
        BY <4>2 DEF Ids
    <3>4. TerminalTasks(u)' = TerminalTasks(u)
      BY <2>8 DEF TerminalTasks, TasksWith
    <3> QED
      BY <2>2, <3>2, <3>3, <3>4
  <2> QED
    BY <2>2, <2>7, <2>8
<1> QED
  BY <1>1, <1>2

-----------------------------------------------------------------------------
(* The theorems.                                                           *)

LEMMA InitIInv == Init => IInv
<1> SUFFICES ASSUME Init PROVE IInv
  OBVIOUS
<1>1. TypeOK /\ PlanInv
  BY InitTypeOK, InitPlanInv
<1>2. ReplanShape /\ EventsAfterStart /\ EventsOnAdoptedPlans /\ EndsOnce
  BY DEF Init, ReplanShape, EventsAfterStart, EventsOnAdoptedPlans, EndsOnce
<1>3. CompletedIsDone /\ UnfinishedWhileOnV1 /\ UnfinishedUnlessShortened
  BY DEF Init, PlanInit, CompletedIsDone, UnfinishedWhileOnV1, UnfinishedUnlessShortened
<1> QED
  BY <1>1, <1>2, <1>3 DEF IInv

LEMMA StepIInv == IInv /\ [Next]_vars => IInv'
<1> SUFFICES ASSUME IInv, [Next]_vars PROVE IInv'
  OBVIOUS
<1>1. TypeOK' /\ PlanInv' /\ ReplanShape'
  BY TypeStep, PlanInvStep, ReplanShapeStep DEF IInv
<1>2. EventsAfterStart' /\ EventsOnAdoptedPlans' /\ EndsOnce'
  BY EventsAfterStartStep, EventsOnAdoptedStep, EndsOnceStep DEF IInv
<1>3. CompletedIsDone' /\ UnfinishedWhileOnV1' /\ UnfinishedUnlessShortened'
  BY CompletedIsDoneStep, UnfinishedStep, UnshortenedStep DEF IInv
<1> QED
  BY <1>1, <1>2, <1>3 DEF IInv

THEOREM Invariance == Spec => []IInv
<1> QED
  BY InitIInv, StepIInv, PTL DEF Spec

\* A trip has at most one CURRENT plan (the rule of ux_plan_versions_current).
THEOREM OneCurrentPlan == Spec => []OneCurrent
<1>1. IInv => OneCurrent
  BY OneCurrentHolds DEF IInv
<1> QED
  BY <1>1, Invariance, PTL

\* The trip status and the plan statuses tell the same story in every state.
THEOREM StatusesAgree == Spec => []PhaseMatchesPlans
<1>1. IInv => PhaseMatchesPlans
  BY PhaseMatches DEF IInv
<1> QED
  BY <1>1, Invariance, PTL

\* A V2 under review can be accepted as well as rejected (accept_v2, reject_v2).
THEOREM ReviewIsDecidable == Spec => []ReplanIsDecidable
<1>1. IInv => ReplanIsDecidable
  BY Decidable DEF IInv
<1> QED
  BY <1>1, Invariance, PTL

\* A task ends once, whichever plans were in force meanwhile (create_event).
THEOREM TaskEndsOnce == Spec => []EndsOnce
<1>1. IInv => EndsOnce
  BY DEF IInv
<1> QED
  BY <1>1, Invariance, PTL

\* Every event names a task of a plan that was adopted (create_event).
THEOREM EventsNameAdoptedPlans == Spec => []EventsOnAdoptedPlans
<1>1. IInv => EventsOnAdoptedPlans
  BY DEF IInv
<1> QED
  BY <1>1, Invariance, PTL

\* COMPLETED means that every task of the plan in force has ended.
THEOREM CompletionIsEarned == Spec => []CompletedIsDone
<1>1. IInv => CompletedIsDone
  BY DEF IInv
<1> QED
  BY <1>1, Invariance, PTL

\* A running trip has work left unless a submitted V2 left tasks out.
THEOREM WorkIsLeft == Spec => []UnfinishedUnlessShortened
<1>1. IInv => UnfinishedUnlessShortened
  BY DEF IInv
<1> QED
  BY <1>1, Invariance, PTL

-----------------------------------------------------------------------------
(* Replanning by the server alone.                                         *)

\* No V2 has left out a task of the V1 that it replaces.
SecondsKeepTasks == \A p \in Plan : HasPlan(p) /\ version[p] = 2 => KeepsTasks(p)

\* A V2 is written by the registration of a replanning request only.
LEMMA SecondIsRegistered ==
    ASSUME IInv, [Next]_vars, NEW q \in Plan, ~HasPlan(q), HasPlan(q)', version'[q] = 2
    PROVE  \E w \in Worker, d \in Itinerary : RegisterReplan(w, q, d)
<1> USE DEF IInv, TypeOK, PlanTypeOK
<1>1. owner[q] = None /\ owner'[q] # None
  <2>1. PlanInv'
    BY PlanInvStep
  <2> QED
    BY <2>1, NoneIsFresh DEF PlanInv, Rows
<1>2. CASE UNCHANGED vars
  BY <1>1, <1>2 DEF vars, planVars
<1>3. ASSUME NEW t \in Trip, NEW p \in Plan, PlanStep(t, p)
      PROVE  FALSE
  <2>1. ASSUME NEW d \in Itinerary, RegisterV1(t, p, d)
        PROVE  FALSE
    BY <1>1, <2>1 DEF RegisterV1, InsertProposed
  <2>2. CASE Decision(t, p) \/ StartExecution(t)
    BY <1>1, <2>2 DEF Decision, Confirm, ConfirmReplay, AcceptV2, AcceptReplay, RejectV2,
                      RejectReplay, StartExecution, UnchangedRows
  <2> QED
    BY <1>3, <2>1, <2>2 DEF PlanStep
<1>4. ASSUME NEW t \in Trip, NEW p \in Plan, EventStep(t, p)
      PROVE  FALSE
  BY <1>1, <1>4 DEF EventStep, CreateEvent
<1>5. ASSUME NEW t \in Trip, NEW p \in Plan, ReplanStep(t, p)
      PROVE  \E w \in Worker, d \in Itinerary : RegisterReplan(w, q, d)
  <2>1. PICK w \in Worker : ReadStep(t, p, w) \/ RegisterStep(t, p, w)
    BY <1>5 DEF ReplanStep, ReadStep, RegisterStep
  <2>2. CASE ReadStep(t, p, w)
    BY <1>1, <2>2, ReadsChangeNothing
  <2>3. CASE RegisterStep(t, p, w)
    <3>1. PICK d \in Itinerary : RegisterReplan(w, p, d)
      BY <2>3 DEF RegisterStep
    <3>2. p = q
      BY <1>1, <3>1 DEF RegisterReplan, RegisterV2, InsertProposed
    <3> QED
      BY <3>1, <3>2
  <2> QED
    BY <2>1, <2>2, <2>3
<1> QED
  BY <1>2, <1>3, <1>4, <1>5 DEF Next

\* The parent of a plan never changes.
LEMMA ParentKept ==
    ASSUME IInv, [Next]_vars, NEW q \in Plan, HasPlan(q)
    PROVE  parent'[q] = parent[q]
<1> USE DEF IInv, TypeOK, PlanTypeOK, HasPlan
<1>1. CASE Still
  BY <1>1 DEF Still
<1>2. ASSUME NEW t \in Trip, NEW p \in Plan, EventStep(t, p)
      PROVE  parent'[q] = parent[q]
  BY <1>2 DEF EventStep, CreateEvent
<1>3. ASSUME NEW t \in Trip, NEW p \in Plan, Writes(t, p)
      PROVE  parent'[q] = parent[q]
  BY <1>3 DEF Writes, RegisterV1, RegisterV2, InsertProposed, Confirm, AcceptV2, RejectV2,
              StartExecution, UnchangedRows
<1> QED
  BY <1>1, <1>2, <1>3, ThreeKinds

LEMMA SecondsKeepTasksStep ==
    ASSUME "SUBMITTED" \notin Sources, IInv, SecondsKeepTasks, [Next]_vars
    PROVE  SecondsKeepTasks'
<1> SUFFICES ASSUME NEW q \in Plan, HasPlan(q)', version'[q] = 2
             PROVE  KeepsTasks(q)'
  BY DEF SecondsKeepTasks, HasPlan
<1>1. CASE HasPlan(q)
  <2>1. version'[q] = version[q] /\ tasks'[q] = tasks[q] /\ parent'[q] = parent[q]
    BY <1>1, RowKept, ParentKept DEF IInv
  <2>2. parent[q] \in Plan /\ HasPlan(parent[q])
    BY <1>1, <2>1 DEF IInv, PlanInv, SecondShape
  <2>3. tasks'[parent[q]] = tasks[parent[q]]
    BY <2>2, RowKept DEF IInv
  <2>4. KeepsTasks(q)
    BY <1>1, <2>1 DEF SecondsKeepTasks
  <2> QED
    BY <2>1, <2>3, <2>4 DEF KeepsTasks, SuffixFits
<1>2. CASE ~HasPlan(q)
  <2>1. PICK w \in Worker, d \in Itinerary : RegisterReplan(w, q, d)
    BY <1>2, SecondIsRegistered
  <2>2. PICK t \in Trip, b \in Plan : /\ RegisterV2(t, q, b, d)
                                      /\ t = replan[w].trip /\ b = replan[w].base
    BY <2>1, RegisterStepFinds DEF IInv
  <2>3. replan[w] \in Replan
    BY <2>1 DEF IInv, TypeOK, RegisterReplan
  <2>4. SuffixFits(tasks[b], d)
    BY <2>1, <2>2, <2>3 DEF RegisterReplan, Candidate, Replan
  <2>5. b # q
    BY <1>2, <2>2 DEF RegisterV2
  <2>6. tasks'[q] = d /\ parent'[q] = b /\ tasks'[b] = tasks[b]
    BY <2>2, <2>5 DEF RegisterV2, InsertProposed, IInv, TypeOK, PlanTypeOK
  <2> QED
    BY <2>4, <2>6 DEF KeepsTasks, SuffixFits
<1> QED
  BY <1>1, <1>2

\* Without POST /replans a trip can always be finished: a V2 of the server's own
\* planner has all tasks of its V1, so once they have ended the event that ended
\* the last of them has completed the trip (create_event).  Run submitted_replans
\* shows that the endpoint breaks this.
THEOREM DoneUnlessSubmitted == "SUBMITTED" \notin Sources /\ Spec => []DoneIsCompleted
<1> SUFFICES ASSUME "SUBMITTED" \notin Sources
             PROVE  Spec => []DoneIsCompleted
  OBVIOUS
<1>1. Init => SecondsKeepTasks
  BY DEF Init, PlanInit, SecondsKeepTasks, HasPlan
<1>2. IInv /\ SecondsKeepTasks /\ [Next]_vars => SecondsKeepTasks'
  BY SecondsKeepTasksStep
<1>3. IInv /\ SecondsKeepTasks => DoneIsCompleted
  <2> SUFFICES ASSUME IInv, SecondsKeepTasks,
                      NEW t \in Trip, tripStatus[t] = "EXECUTING", NEW p \in PlansOf(t, "CURRENT")
               PROVE  ~(Ids(tasks[p]) \subseteq TerminalTasks(t))
    BY DEF DoneIsCompleted
  <2>1. HasPlan(p) /\ p \in Plan
    BY DEF PlansOf, HasPlan
  <2>2. KeepsTasks(p)
    BY <2>1 DEF IInv, PlanInv, Rows, SecondsKeepTasks, KeepsTasks
  <2> QED
    BY <2>2 DEF IInv, UnfinishedUnlessShortened
<1> QED
  BY <1>1, <1>2, <1>3, Invariance, PTL DEF Spec

-----------------------------------------------------------------------------
(* The action properties.                                                  *)

\* A plan loses CURRENT only to its own V2, in the same transaction
\* (accept_v2).
THEOREM CurrentIsHandedOver == Spec => CurrentHandedOver
<1>1. IInv /\ [Next]_vars => [HandOver]_vars
  <2> SUFFICES ASSUME IInv, [Next]_vars, NEW q \in Plan,
                      status[q] = "CURRENT", status'[q] # "CURRENT"
               PROVE  \E r \in Plan : /\ parent[r] = q /\ owner[r] = owner[q]
                                      /\ status[r] = "PROPOSED" /\ status'[r] = "CURRENT"
    BY DEF HandOver
  <2> USE DEF IInv, TypeOK, PlanTypeOK
  <2>1. PICK t \in Trip, p \in Plan : Writes(t, p)
    BY ThreeKinds DEF Still, EventStep, CreateEvent
  <2>2. ~(\E d \in Itinerary : RegisterV1(t, p, d))
    BY DEF RegisterV1, InsertProposed, HasPlan
  <2>3. ~(\E d \in Itinerary, b \in Plan : RegisterV2(t, p, b, d))
    BY DEF RegisterV2, InsertProposed, HasPlan
  <2>4. ~Confirm(t, p)
    BY DEF Confirm
  <2>5. ~RejectV2(t, p)
    <3>1. RejectV2(t, p) => status[p] = "PROPOSED"
      BY DecisionFinds
    <3> QED
      BY <3>1 DEF RejectV2
  <2>6. ~StartExecution(t)
    BY DEF StartExecution
  <2>7. AcceptV2(t, p)
    BY <2>1, <2>2, <2>3, <2>4, <2>5, <2>6 DEF Writes
  <2>8. /\ owner[p] = t /\ status[p] = "PROPOSED"
        /\ parent[p] \in Plan /\ owner[parent[p]] = t
    BY <2>7, DecisionFinds
  <2>9. status' = [status EXCEPT ![parent[p]] = "SUPERSEDED", ![p] = "CURRENT"]
    BY <2>7 DEF AcceptV2, Promote
  <2> QED
    BY <2>8, <2>9
<1> QED
  BY <1>1, Invariance, PTL DEF Spec, CurrentHandedOver

\* A retried or late transition call never answers with a status the trip has
\* not reached, or has left for COMPLETED.
THEOREM ReportsStayPlausible == Spec => ReportsArePlausible
<1>1. IInv /\ [Next]_vars => [ReportsPlausible]_vars
  <2> SUFFICES ASSUME IInv, [Next]_vars, NEW u \in Trip, reported'[u] # reported[u]
               PROVE  /\ reported'[u] = "EXECUTING" =>
                             tripStatus'[u] \in {"EXECUTING", "REPLAN_REVIEW"}
                      /\ reported'[u] = "NONE" =>
                            tripStatus'[u] \in {"PLAN_REVIEW", "REPLAN_REVIEW"}
                      /\ reported'[u] \notin {"EXECUTING", "NONE"} => reported'[u] = tripStatus'[u]
    BY DEF ReportsPlausible
  <2> USE DEF IInv, TypeOK, PlanTypeOK
  <2>1. PICK t \in Trip, p \in Plan : PlanStep(t, p) \/ EventStep(t, p) \/ ReplanStep(t, p)
    BY DEF Next, vars, planVars
  <2>2. ~EventStep(t, p)
    BY DEF EventStep, CreateEvent
  <2>3. CASE ReplanStep(t, p)
    <3>1. PICK w \in Worker : ReadStep(t, p, w) \/ RegisterStep(t, p, w)
      BY <2>3 DEF ReplanStep, ReadStep, RegisterStep
    <3>2. PICK d \in Itinerary : RegisterReplan(w, p, d)
      BY <3>1, ReadsChangeNothing DEF RegisterStep
    <3>3. PICK v \in Trip, b \in Plan : RegisterV2(v, p, b, d)
      BY <3>2, RegisterStepFinds
    <3> QED
      BY <3>3 DEF RegisterV2, UpdateTrip
  <2>4. CASE \E d \in Itinerary : RegisterV1(t, p, d)
    BY <2>4 DEF RegisterV1
  <2>5. CASE Confirm(t, p)
    BY <2>5, TripMoves DEF Confirm, UpdateTrip
  <2>6. CASE ConfirmReplay(t, p)
    <3>1. tripStatus[t] # "NONE"
      BY <2>6 DEF ConfirmReplay, PlanInv, TripShape
    <3> QED
      BY <2>6, <3>1 DEF ConfirmReplay
  <2>7. CASE AcceptV2(t, p) \/ RejectV2(t, p)
    <3>1. tripStatus[t] = "REPLAN_REVIEW"
      BY <2>7, DecisionFinds
    <3> QED
      BY <2>7, <3>1 DEF AcceptV2, RejectV2, UpdateTrip
  <2>8. CASE AcceptReplay(t, p) \/ RejectReplay(t, p)
    BY <2>8 DEF AcceptReplay, RejectReplay
  <2>9. CASE StartExecution(t)
    BY <2>9, TripMoves DEF StartExecution, UpdateTrip
  <2> QED
    BY <2>1, <2>2, <2>3, <2>4, <2>5, <2>6, <2>7, <2>8, <2>9 DEF PlanStep, Decision
<1> QED
  BY <1>1, Invariance, PTL DEF Spec, ReportsArePlausible

-----------------------------------------------------------------------------
(* The contract.  TripExecution implements TripContract: each transaction  *)
(* of the store is one step of the contract or leaves the contract's       *)
(* variables alone.                                                        *)

Retired == {p \in Plan : status[p] \in {"REJECTED", "SUPERSEDED"}}

Replanned == {t \in Trip : VersionTaken(t, 2)}

\* What the contract sees of the state.
SameView ==
    /\ UNCHANGED tripStatus
    /\ \A u \in Trip, s \in {"CURRENT", "PROPOSED"} : PlansOf(u, s)' = PlansOf(u, s)
    /\ Retired' = Retired /\ Replanned' = Replanned

LEMMA SameViewStutters == SameView => UNCHANGED Contract!vars
  BY DEF SameView, Retired, Replanned, Contract!vars

LEMMA RowsUnchanged ==
    ASSUME UNCHANGED <<status, owner, version>>
    PROVE  /\ \A u \in Trip, s \in {"CURRENT", "PROPOSED"} : PlansOf(u, s)' = PlansOf(u, s)
           /\ Retired' = Retired /\ Replanned' = Replanned
  BY DEF PlansOf, Retired, Replanned, VersionTaken, HasPlan

LEMMA ContractInit == Init => Contract!Init
<1> SUFFICES ASSUME Init PROVE Contract!Init
  OBVIOUS
<1>1. \A p \in Plan : status[p] = "NONE"
  BY DEF Init, PlanInit
<1>2. \A t \in Trip : /\ PlansOf(t, "CURRENT") = {} /\ PlansOf(t, "PROPOSED") = {}
                      /\ ~VersionTaken(t, 2)
  BY <1>1 DEF PlansOf, VersionTaken, HasPlan
<1>3. tripStatus = [t \in Trip |-> "NONE"]
  BY DEF Init, PlanInit
<1> QED
  BY <1>1, <1>2, <1>3 DEF Contract!Init

LEMMA ProposeStep ==
    ASSUME TypeOK, PlanInv, NEW t \in Trip, NEW p \in Plan, NEW d \in Itinerary,
           RegisterV1(t, p, d)
    PROVE  Contract!Propose(t, p)
<1>1. /\ status[p] = "NONE" /\ owner[p] = None /\ t # None
      /\ tripStatus[t] = "NONE"
      /\ \A q \in Plan : status[q] # "NONE" => owner[q] # t
  <2>1. ~HasPlan(p) /\ ~VersionTaken(t, 1) /\ owner[p] = None
    BY DEF RegisterV1, InsertProposed, PlanInv, Rows
  <2>2. tripStatus[t] = "NONE"
    BY <2>1 DEF RegisterV1, PlanInv, TripShape, VersionTaken
  <2>3. \A q \in Plan : HasPlan(q) => owner[q] # t
    BY <2>1, <2>2 DEF PlanInv, Rows, TripShape, SecondShape, Running, VersionTaken
  <2> QED
    BY <2>1, <2>2, <2>3, NoneIsFresh DEF HasPlan
<1>2. /\ status' = [status EXCEPT ![p] = "PROPOSED"]
      /\ owner' = [owner EXCEPT ![p] = t]
      /\ version' = [version EXCEPT ![p] = 1]
      /\ tripStatus' = [tripStatus EXCEPT ![t] = "PLAN_REVIEW"]
  BY DEF RegisterV1, InsertProposed
<1> USE DEF TypeOK, PlanTypeOK
<1>3. \A u \in Trip : PlansOf(u, "CURRENT")' = PlansOf(u, "CURRENT")
  BY <1>1, <1>2 DEF PlansOf
<1>4. \A u \in Trip : PlansOf(u, "PROPOSED")' = IF u = t THEN {p} ELSE PlansOf(u, "PROPOSED")
  BY <1>1, <1>2 DEF PlansOf
<1>5. Retired' = Retired
  BY <1>1, <1>2 DEF Retired
<1>6. Replanned' = Replanned
  BY <1>1, <1>2 DEF Replanned, VersionTaken, HasPlan
<1>7. Contract!Fresh(p)
  BY <1>1 DEF Contract!Fresh, PlansOf
<1> QED
  BY <1>1, <1>2, <1>3, <1>4, <1>5, <1>6, <1>7
     DEF Contract!Propose, Contract!Moves, Retired, Replanned

LEMMA ProposeReplacementStep ==
    ASSUME TypeOK, PlanInv, NEW t \in Trip, NEW p \in Plan, NEW b \in Plan, NEW d \in Itinerary,
           RegisterV2(t, p, b, d)
    PROVE  Contract!ProposeReplacement(t, p)
<1>1. /\ status[p] = "NONE" /\ owner[p] = None
      /\ tripStatus[t] = "EXECUTING" /\ ~VersionTaken(t, 2)
  BY DEF RegisterV2, InsertProposed, PlanInv, Rows, HasPlan
<1>2. /\ status' = [status EXCEPT ![p] = "PROPOSED"]
      /\ owner' = [owner EXCEPT ![p] = t]
      /\ version' = [version EXCEPT ![p] = 2]
      /\ tripStatus' = [tripStatus EXCEPT ![t] = "REPLAN_REVIEW"]
  BY <1>1 DEF RegisterV2, InsertProposed, UpdateTrip
<1>0. PlansOf(t, "PROPOSED") = {}
  BY <1>1, PhaseMatches DEF PhaseMatchesPlans
<1> USE DEF TypeOK, PlanTypeOK
<1>3. \A u \in Trip : PlansOf(u, "CURRENT")' = PlansOf(u, "CURRENT")
  BY <1>1, <1>2, NoneIsFresh DEF PlansOf
<1>4. \A u \in Trip : PlansOf(u, "PROPOSED")' = IF u = t THEN {p} ELSE PlansOf(u, "PROPOSED")
  BY <1>0, <1>1, <1>2, NoneIsFresh DEF PlansOf
<1>5. Retired' = Retired
  BY <1>1, <1>2 DEF Retired
<1>6. Replanned' = Replanned \cup {t}
  BY <1>1, <1>2 DEF Replanned, VersionTaken, HasPlan
<1>7. Contract!Fresh(p)
  BY <1>1 DEF Contract!Fresh, PlansOf
<1>8. [u \in Trip |-> PlansOf(u, "CURRENT")]' = [u \in Trip |-> PlansOf(u, "CURRENT")]
  BY <1>3
<1>9. [u \in Trip |-> PlansOf(u, "PROPOSED")]' =
         [[u \in Trip |-> PlansOf(u, "PROPOSED")] EXCEPT ![t] = {p}]
  BY <1>4
<1>10. Contract!Moves(t, "EXECUTING", "REPLAN_REVIEW")
  BY <1>1, <1>2 DEF Contract!Moves
<1>11. t \notin Replanned
  BY <1>1 DEF Replanned
<1> QED
  BY <1>5, <1>6, <1>7, <1>8, <1>9, <1>10, <1>11 DEF Contract!ProposeReplacement, Retired, Replanned

LEMMA AdoptStep ==
    ASSUME TypeOK, PlanInv, NEW t \in Trip, NEW p \in Plan, Confirm(t, p)
    PROVE  Contract!Adopt(t)
<1>1. /\ owner[p] = t /\ version[p] = 1 /\ status[p] = "PROPOSED"
      /\ tripStatus[t] = "PLAN_REVIEW"
  BY PlanMoves, TripMoves DEF Confirm
<1>2. \A q \in Plan : status[q] # "NONE" /\ owner[q] = t => q = p
  BY <1>1, SamePlan DEF PlanInv, Rows, SecondShape, Running, HasPlan
<1>3. /\ status' = [status EXCEPT ![p] = "CURRENT"]
      /\ tripStatus' = [tripStatus EXCEPT ![t] = "CONFIRMED"]
      /\ UNCHANGED <<owner, version>>
  BY <1>1 DEF Confirm, UpdateTrip, UnchangedRows
<1> USE DEF TypeOK, PlanTypeOK
<1>4. \A u \in Trip : PlansOf(u, "CURRENT")' =
                         IF u = t THEN PlansOf(t, "PROPOSED") ELSE PlansOf(u, "CURRENT")
  BY <1>1, <1>2, <1>3 DEF PlansOf
<1>5. \A u \in Trip : PlansOf(u, "PROPOSED")' = IF u = t THEN {} ELSE PlansOf(u, "PROPOSED")
  BY <1>1, <1>2, <1>3 DEF PlansOf
<1>6. Retired' = Retired
  BY <1>1, <1>3 DEF Retired
<1>7. Replanned' = Replanned
  BY <1>1, <1>3 DEF Replanned, VersionTaken, HasPlan
<1>8. [u \in Trip |-> PlansOf(u, "CURRENT")]' =
         [[u \in Trip |-> PlansOf(u, "CURRENT")] EXCEPT
             ![t] = [u \in Trip |-> PlansOf(u, "PROPOSED")][t]]
  BY <1>4
<1>9. [u \in Trip |-> PlansOf(u, "PROPOSED")]' =
         [[u \in Trip |-> PlansOf(u, "PROPOSED")] EXCEPT ![t] = {}]
  BY <1>5
<1>10. Contract!Moves(t, "PLAN_REVIEW", "CONFIRMED")
  BY <1>1, <1>3 DEF Contract!Moves
<1> QED
  BY <1>6, <1>7, <1>8, <1>9, <1>10 DEF Contract!Adopt, Retired, Replanned

LEMMA StartStep ==
    ASSUME TypeOK, NEW t \in Trip, StartExecution(t)
    PROVE  Contract!Start(t) \/ SameView
<1>1. UNCHANGED <<status, owner, version>>
  BY DEF StartExecution, UnchangedRows
<1>2. CASE tripStatus[t] = "CONFIRMED"
  BY <1>1, <1>2, RowsUnchanged
     DEF StartExecution, UpdateTrip, Contract!Start, Contract!Moves, Retired, Replanned
<1>3. CASE tripStatus[t] # "CONFIRMED"
  <2>1. UNCHANGED tripStatus
    BY <1>3 DEF StartExecution, UpdateTrip, TypeOK, PlanTypeOK
  <2> QED
    BY <1>1, <2>1, RowsUnchanged DEF SameView
<1> QED
  BY <1>2, <1>3

LEMMA AcceptStep ==
    ASSUME TypeOK, PlanInv, NEW t \in Trip, NEW p \in Plan, AcceptV2(t, p)
    PROVE  Contract!Accept(t)
<1> DEFINE b == parent[p]
<1>1. /\ HasPlan(p) /\ owner[p] = t /\ version[p] = 2 /\ status[p] = "PROPOSED"
      /\ tripStatus[t] = "REPLAN_REVIEW"
      /\ b \in Plan /\ HasPlan(b) /\ owner[b] = t /\ version[b] = 1 /\ status[b] = "CURRENT"
      /\ \A q \in Plan : HasPlan(q) /\ owner[q] = t => q \in {p, b}
  BY DecisionFinds
<1>2. /\ status' = [status EXCEPT ![b] = "SUPERSEDED", ![p] = "CURRENT"]
      /\ tripStatus' = [tripStatus EXCEPT ![t] = "EXECUTING"]
      /\ UNCHANGED <<owner, version>>
  BY <1>1 DEF AcceptV2, Promote, UpdateTrip, UnchangedRows
<1> HIDE DEF b
<1> USE DEF TypeOK, PlanTypeOK, HasPlan
<1>3. PlansOf(t, "CURRENT") = {b} /\ PlansOf(t, "PROPOSED") = {p}
  BY <1>1 DEF PlansOf
<1>4. \A u \in Trip : PlansOf(u, "CURRENT")' = IF u = t THEN {p} ELSE PlansOf(u, "CURRENT")
  BY <1>1, <1>2 DEF PlansOf
<1>5. \A u \in Trip : PlansOf(u, "PROPOSED")' = IF u = t THEN {} ELSE PlansOf(u, "PROPOSED")
  BY <1>1, <1>2 DEF PlansOf
<1>6. Retired' = Retired \cup {b}
  BY <1>1, <1>2 DEF Retired
<1>7. Replanned' = Replanned
  BY <1>1, <1>2 DEF Replanned, VersionTaken
<1> HIDE DEF TypeOK, PlanTypeOK, HasPlan
<1>8. Retired' = Retired \cup PlansOf(t, "CURRENT")
  BY <1>3, <1>6
<1>9. \A u \in Trip : PlansOf(u, "CURRENT")' =
                         IF u = t THEN PlansOf(t, "PROPOSED") ELSE PlansOf(u, "CURRENT")
  BY <1>3, <1>4
<1> QED
  BY <1>1, <1>2, <1>5, <1>7, <1>8, <1>9 DEF Contract!Accept, Contract!Moves, Retired, Replanned

LEMMA RejectStep ==
    ASSUME TypeOK, PlanInv, NEW t \in Trip, NEW p \in Plan, RejectV2(t, p)
    PROVE  Contract!Reject(t)
<1>1. /\ HasPlan(p) /\ owner[p] = t /\ version[p] = 2 /\ status[p] = "PROPOSED"
      /\ tripStatus[t] = "REPLAN_REVIEW" /\ status[parent[p]] = "CURRENT"
      /\ \A q \in Plan : HasPlan(q) /\ owner[q] = t => q \in {p, parent[p]}
  BY DecisionFinds
<1>2. /\ status' = [status EXCEPT ![p] = "REJECTED"]
      /\ tripStatus' = [tripStatus EXCEPT ![t] = "EXECUTING"]
      /\ UNCHANGED <<owner, version>>
  BY <1>1 DEF RejectV2, UpdateTrip, UnchangedRows
<1> USE DEF TypeOK, PlanTypeOK, HasPlan
<1>3. PlansOf(t, "PROPOSED") = {p}
  BY <1>1 DEF PlansOf
<1>4. \A u \in Trip : PlansOf(u, "CURRENT")' = PlansOf(u, "CURRENT")
  BY <1>1, <1>2 DEF PlansOf
<1>5. \A u \in Trip : PlansOf(u, "PROPOSED")' = IF u = t THEN {} ELSE PlansOf(u, "PROPOSED")
  BY <1>1, <1>2, <1>3 DEF PlansOf
<1>6. Retired' = Retired \cup {p}
  BY <1>1, <1>2 DEF Retired
<1>7. Replanned' = Replanned
  BY <1>1, <1>2 DEF Replanned, VersionTaken
<1> HIDE DEF TypeOK, PlanTypeOK, HasPlan
<1>8. Retired' = Retired \cup PlansOf(t, "PROPOSED")
  BY <1>3, <1>6
<1> QED
  BY <1>1, <1>2, <1>4, <1>5, <1>7, <1>8 DEF Contract!Reject, Contract!Moves, Retired, Replanned

LEMMA FinishStep ==
    ASSUME TypeOK, NEW t \in Trip, NEW p \in Plan, EventStep(t, p)
    PROVE  Contract!Finish(t) \/ SameView
<1>1. /\ UNCHANGED <<status, owner, version>>
      /\ tripStatus[t] = "EXECUTING"
      /\ UpdateTrip(t, "EXECUTING", "COMPLETED") \/ UNCHANGED tripStatus
  BY DEF EventStep, CreateEvent
<1>2. CASE UpdateTrip(t, "EXECUTING", "COMPLETED")
  BY <1>1, <1>2, RowsUnchanged
     DEF UpdateTrip, Contract!Finish, Contract!Moves, Retired, Replanned
<1>3. CASE UNCHANGED tripStatus
  BY <1>1, <1>3, RowsUnchanged DEF SameView
<1> QED
  BY <1>1, <1>2, <1>3

\* Every behaviour of the store, with its events and replanning requests, is a
\* behaviour of the trip's contract.
THEOREM StoreImplementsContract == Spec => ImplementsContract
<1>1. IInv /\ [Next]_vars => [Contract!Next]_Contract!vars
  <2> SUFFICES ASSUME IInv, [Next]_vars PROVE Contract!Next \/ UNCHANGED Contract!vars
    OBVIOUS
  <2> USE DEF IInv
  <2>1. CASE Still
    <3>1. SameView
      BY <2>1, RowsUnchanged DEF Still, SameView
    <3> QED
      BY <3>1, SameViewStutters
  <2>2. ASSUME NEW t \in Trip, NEW p \in Plan, EventStep(t, p)
        PROVE  Contract!Next \/ UNCHANGED Contract!vars
    BY <2>2, FinishStep, SameViewStutters DEF Contract!Next
  <2>3. ASSUME NEW t \in Trip, NEW p \in Plan, Writes(t, p)
        PROVE  Contract!Next \/ UNCHANGED Contract!vars
    BY <2>3, ProposeStep, ProposeReplacementStep, AdoptStep, AcceptStep, RejectStep,
       StartStep, SameViewStutters DEF Writes, Contract!Next
  <2> QED
    BY <2>1, <2>2, <2>3, ThreeKinds
<1> QED
  BY <1>1, ContractInit, Invariance, PTL DEF Spec, ImplementsContract, Contract!Spec
=============================================================================
