---------------------------- MODULE TripExecution ---------------------------
(***************************************************************************)
(* A trip from its first proposed plan to COMPLETED: the plan store, the   *)
(* execution events of app/infrastructure/workflow_store.py, and the       *)
(* replanning requests of app/application/planning_boundary_service.py.    *)
(*                                                                         *)
(* A replanning request reads the CURRENT plan and the event log, computes *)
(* a candidate without holding any lock of the database, and registers it  *)
(* in a later transaction.  Events, decisions and other requests may run   *)
(* in between; a worker's snapshot is kept in replan.                      *)
(***************************************************************************)
EXTENDS PlanVersions

CONSTANTS TaskId, Key, Worker,
          Sources,     \* the replanning endpoints in use
          MaxReplans

ASSUME ItinerariesAreDays ==
    \A d \in Itinerary :
        /\ d \in Seq([id : TaskId, slot : Nat])
        /\ d # <<>>
        /\ \A i, j \in DOMAIN d : d[i].id = d[j].id => i = j

ASSUME SourcesAreEndpoints ==
    Sources \subseteq {"SUBMITTED", "FROM_EVENTS", "FROM_ADJUSTMENT"}

ASSUME ReplansAreBounded == MaxReplans \in Nat

VARIABLES
    events,   \* rows of execution_events
    replan,   \* what each replanning request has read, or None
    begun     \* replanning requests begun so far (bounded by MaxReplans)

vars == <<planVars, events, replan, begun>>

EventType == {"START", "COMPLETE", "SKIP", "EXPENSE"}
Terminal  == {"COMPLETE", "SKIP"}

Event  == [trip : Trip, key : Key, task : TaskId, plan : Plan, type : EventType]
Replan == [trip : Trip, base : Plan, frozen : SUBSET Nat, source : Sources]

Ids(d) == {d[i].id : i \in DOMAIN d}

TasksWith(t, types) == {e.task : e \in {f \in events : f.trip = t /\ f.type \in types}}

\* Mutant: a skipped task is not seen as ended.
CompletedTasks(t) == TasksWith(t, {"COMPLETE"})

TerminalTasks(t) == TasksWith(t, Terminal)

-----------------------------------------------------------------------------
(* Execution events.                                                       *)

\* Mutant: any plan of the trip takes events.
IsOfTrip(t, p) == owner[p] = t

IsCurrent(t, p) == owner[p] = t /\ status[p] = "CURRENT"

\* Mutants: the ended tasks are counted; the event just written is not seen.
EnoughEnded(t, p, x) == Cardinality(TerminalTasks(t) \cup {x}) >= Len(tasks[p])

AllEndedBefore(t, p, x) == Ids(tasks[p]) \subseteq TerminalTasks(t)

\* All tasks of p have ended, x with the event being written.
AllEnded(t, p, x) == Ids(tasks[p]) \subseteq TerminalTasks(t) \cup {x}

\* A repeated key returns the stored row, or is refused for another payload,
\* before anything else is looked at: neither writes, so only the first use
\* of a key is a step.
CreateEvent(t, k, p, x, y) ==
    /\ ~\E e \in events : e.trip = t /\ e.key = k
    /\ tripStatus[t] = "EXECUTING"
    /\ IsCurrent(t, p)
    /\ x \in Ids(tasks[p])
    /\ y \in Terminal => x \notin TerminalTasks(t)
    /\ events' = events \cup {[trip |-> t, key |-> k, task |-> x, plan |-> p, type |-> y]}
    /\ IF y \in Terminal /\ AllEnded(t, p, x)
       THEN UpdateTrip(t, "EXECUTING", "COMPLETED")
       ELSE UNCHANGED tripStatus
    /\ UNCHANGED <<status, owner, version, parent, tasks, reported, replan, begun>>

-----------------------------------------------------------------------------
(* Replanning.                                                             *)

\* The positions of the shortest prefix of d that holds every task of ids.
Frozen(d, ids) ==
    {i \in DOMAIN d : \E j \in DOMAIN d : i <= j /\ d[j].id \in ids}

IsCurrentV1(t, b) == IsCurrent(t, b) /\ version[b] = 1

BeginReplan(w, t, b, frozen, s) ==
    /\ replan[w] = None
    /\ s \in Sources
    /\ begun < MaxReplans
    /\ replan' = [replan EXCEPT ![w] = [trip |-> t, base |-> b, frozen |-> frozen, source |-> s]]
    /\ begun' = begun + 1
    /\ UNCHANGED <<planVars, events>>

\* POST /replans: the client submits candidates; the selector freezes the
\* prefix up to the last terminal or locked task.
ReadSubmitted(w, t, b, locked) ==
    /\ IsCurrentV1(t, b)
    /\ locked \subseteq Ids(tasks[b])
    /\ BeginReplan(w, t, b, Frozen(tasks[b], TerminalTasks(t) \cup locked), "SUBMITTED")

\* POST /replans/from-events.
ReadFromEvents(w, t, b) ==
    LET frozen == Frozen(tasks[b], TasksWith(t, {"START", "COMPLETE", "SKIP"}))
    IN  /\ IsCurrentV1(t, b)
        /\ TasksWith(t, {"EXPENSE"}) # {}
        /\ TasksWith(t, {"COMPLETE"}) \subseteq TasksWith(t, {"EXPENSE"})
        /\ frozen # DOMAIN tasks[b]
        /\ BeginReplan(w, t, b, frozen, "FROM_EVENTS")

\* POST /replans/from-adjustment: x is the task reported late or tiring.
ReadForAdjustment(w, t, b, x, locked) ==
    LET touched == TasksWith(t, {"START", "COMPLETE", "SKIP"}) \cup {x} \cup locked
        frozen  == Frozen(tasks[b], touched)
    IN  /\ tripStatus[t] = "EXECUTING"
        /\ PlansOf(t, "PROPOSED") = {}
        /\ IsCurrentV1(t, b)
        /\ x \in Ids(tasks[b])
        /\ x \in TasksWith(t, {"START"}) \ TerminalTasks(t)
        /\ locked \subseteq Ids(tasks[b])
        /\ frozen # DOMAIN tasks[b]
        /\ BeginReplan(w, t, b, frozen, "FROM_ADJUSTMENT")

\* The planner of the server keeps the task of every place of the suffix and
\* changes its times at most.
SuffixFits(base, d) ==
    Len(d) = Len(base) /\ \A i \in DOMAIN d : d[i].id = base[i].id

\* What the selector lets through for the request r.  The expense of a
\* from-events request leaves the trusted suffix as it is; an adjustment that
\* changes nothing is refused.
Candidate(r, d) ==
    LET base == tasks[r.base]
    IN  /\ \A i \in r.frozen : i \in DOMAIN d /\ d[i] = base[i]
        /\ r.source # "SUBMITTED" => SuffixFits(base, d)
        /\ r.source = "FROM_EVENTS" => d = base
        /\ r.source = "FROM_ADJUSTMENT" => d # base

RegisterReplan(w, p, d) ==
    /\ replan[w] # None
    /\ Candidate(replan[w], d)
    /\ RegisterV2(replan[w].trip, p, replan[w].base, d)
    /\ replan' = [replan EXCEPT ![w] = None]
    /\ UNCHANGED <<events, begun>>

\* No feasible candidate, a refused registration, or a crash of the process.
AbandonReplan(w) ==
    /\ replan[w] # None
    /\ replan' = [replan EXCEPT ![w] = None]
    /\ UNCHANGED <<planVars, events, begun>>

-----------------------------------------------------------------------------
Init ==
    /\ PlanInit
    /\ events = {}
    /\ replan = [w \in Worker |-> None]
    /\ begun = 0

PlanStep(t, p) ==
    /\ \/ \E d \in Itinerary : RegisterV1(t, p, d)
       \/ Decision(t, p)
       \/ StartExecution(t)
    /\ UNCHANGED <<events, replan, begun>>

EventStep(t, p) ==
    \E k \in Key, x \in TaskId, y \in EventType : CreateEvent(t, k, p, x, y)

ReplanStep(t, p) ==
    \E w \in Worker :
        \/ \E locked \in SUBSET TaskId : ReadSubmitted(w, t, p, locked)
        \/ ReadFromEvents(w, t, p)
        \/ \E x \in TaskId, locked \in SUBSET TaskId : ReadForAdjustment(w, t, p, x, locked)
        \/ \E d \in Itinerary : RegisterReplan(w, p, d)
        \/ AbandonReplan(w)

Next == \E t \in Trip, p \in Plan : PlanStep(t, p) \/ EventStep(t, p) \/ ReplanStep(t, p)

Spec == Init /\ [][Next]_vars

-----------------------------------------------------------------------------
(* Properties.                                                             *)

TypeOK ==
    /\ PlanTypeOK
    /\ events \subseteq Event
    /\ replan \in [Worker -> Replan \cup {None}]
    /\ begun \in Nat

\* A trip has at most one CURRENT plan.  No action consults the partial unique
\* index ux_plan_versions_current: the transactions keep the rule without it,
\* so accept and confirm never fail on it.
OneCurrent == \A t \in Trip : \A p, q \in PlansOf(t, "CURRENT") : p = q

\* The trip status and the plan statuses, written by different statements of a
\* transaction, always tell the same story.
PhaseMatchesPlans ==
    \A t \in Trip :
        /\ tripStatus[t] \in {"NONE", "PLAN_REVIEW", "CONFIRMED", "EXECUTING",
                              "REPLAN_REVIEW", "COMPLETED"}
        /\ PlansOf(t, "CURRENT") = {} <=> tripStatus[t] \in {"NONE", "PLAN_REVIEW"}
        /\ PlansOf(t, "PROPOSED") # {} <=> tripStatus[t] \in {"PLAN_REVIEW", "REPLAN_REVIEW"}

\* Whenever a V2 awaits its decision, both decisions would go through: its
\* parent is the CURRENT plan of the same trip, and the trip is in review.
ReplanIsDecidable ==
    \A t \in Trip : tripStatus[t] = "REPLAN_REVIEW" =>
        \E p \in PlansOf(t, "PROPOSED") :
            /\ version[p] = 2
            /\ PlansOf(t, "CURRENT") = {parent[p]}

\* A plan gives up CURRENT only to its own accepted successor, in one step.
HandOver ==
    \A p \in Plan : status[p] = "CURRENT" /\ status'[p] # "CURRENT" =>
        \E q \in Plan : /\ parent[q] = p /\ owner[q] = owner[p]
                        /\ status[q] = "PROPOSED" /\ status'[q] = "CURRENT"
CurrentHandedOver == [][HandOver]_vars

\* A task ends once in a trip: completed or skipped, by one event, whichever
\* plan version was CURRENT when it ended.
EndsOnce ==
    \A e, f \in events :
        e.trip = f.trip /\ e.task = f.task /\ {e.type, f.type} \subseteq Terminal => e = f

\* Every event was recorded against a plan that had been adopted, and names a
\* task of that plan.
EventsOnAdoptedPlans ==
    \A e \in events :
        /\ status[e.plan] \in {"CURRENT", "SUPERSEDED"}
        /\ owner[e.plan] = e.trip
        /\ e.task \in Ids(tasks[e.plan])

\* COMPLETED is only reached when every task of the CURRENT plan has ended.
CompletedIsDone ==
    \A t \in Trip : tripStatus[t] = "COMPLETED" =>
        \A p \in PlansOf(t, "CURRENT") : Ids(tasks[p]) \subseteq TerminalTasks(t)

\* The plan in force holds every task the trip was started with: it is V1, or a
\* V2 that left none of them out.
KeepsTasks(p) == version[p] = 1 \/ SuffixFits(tasks[parent[p]], tasks[p])

\* A trip that runs still has work left, whatever was replanned and however its
\* tasks ended before, unless a V2 that the client submitted left tasks out.
UnfinishedUnlessShortened ==
    \A t \in Trip : tripStatus[t] \in {"EXECUTING", "REPLAN_REVIEW"} =>
        \A p \in PlansOf(t, "CURRENT") :
            KeepsTasks(p) => ~(Ids(tasks[p]) \subseteq TerminalTasks(t))

\* A transition call never reports a trip as started, decided or confirmed that
\* is completed or has not got there yet.
ReportsPlausible ==
    \A t \in Trip : reported'[t] # reported[t] =>
        /\ reported'[t] = "EXECUTING" => tripStatus'[t] \in {"EXECUTING", "REPLAN_REVIEW"}
        /\ reported'[t] = "NONE" => tripStatus'[t] \in {"PLAN_REVIEW", "REPLAN_REVIEW"}
        /\ reported'[t] \notin {"EXECUTING", "NONE"} => reported'[t] = tripStatus'[t]
ReportsArePlausible == [][ReportsPlausible]_vars

\* Once all tasks have ended the trip is COMPLETED, so a trip that runs can
\* always be finished: an ended task takes no second COMPLETE or SKIP
\* (docs/superpowers/specs/2026-08-25-s1-t015-execution-event-design.md:50).
DoneIsCompleted ==
    \A t \in Trip : tripStatus[t] = "EXECUTING" =>
        \A p \in PlansOf(t, "CURRENT") : ~(Ids(tasks[p]) \subseteq TerminalTasks(t))

\* Seen through its statuses, the store behaves as TripContract promises: every
\* step is one step of the contract or invisible to it.
Contract == INSTANCE TripContract WITH
    phase     <- tripStatus,
    current   <- [t \in Trip |-> PlansOf(t, "CURRENT")],
    candidate <- [t \in Trip |-> PlansOf(t, "PROPOSED")],
    retired   <- {p \in Plan : status[p] \in {"REJECTED", "SUPERSEDED"}},
    replanned <- {t \in Trip : VersionTaken(t, 2)}

ImplementsContract == Contract!Spec
=============================================================================
