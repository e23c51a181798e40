---------------------------- MODULE TripContract ----------------------------
(***************************************************************************)
(* What the plan store promises its callers about a trip: which plan is in *)
(* force, which one awaits a decision, and which can never come back.      *)
(* .agent/api_contracts.md sections 10.2 and 11.3 tell the same story.     *)
(***************************************************************************)
CONSTANTS Trip, Plan

VARIABLES
    phase,      \* the status of each trip
    current,    \* the plan in force: at most one
    candidate,  \* the plan awaiting a decision: at most one
    retired,    \* plans that were rejected or replaced
    replanned   \* trips that have used their only replacement

vars == <<phase, current, candidate, retired, replanned>>

Fresh(p) == /\ p \notin retired
            /\ \A t \in Trip : p \notin current[t] \cup candidate[t]

Moves(t, from, to) == phase[t] = from /\ phase' = [phase EXCEPT ![t] = to]

Propose(t, p) ==
    /\ Moves(t, "NONE", "PLAN_REVIEW")
    /\ Fresh(p)
    /\ candidate' = [candidate EXCEPT ![t] = {p}]
    /\ UNCHANGED <<current, retired, replanned>>

Adopt(t) ==
    /\ Moves(t, "PLAN_REVIEW", "CONFIRMED")
    /\ current' = [current EXCEPT ![t] = candidate[t]]
    /\ candidate' = [candidate EXCEPT ![t] = {}]
    /\ UNCHANGED <<retired, replanned>>

Start(t) ==
    /\ Moves(t, "CONFIRMED", "EXECUTING")
    /\ UNCHANGED <<current, candidate, retired, replanned>>

ProposeReplacement(t, p) ==
    /\ Moves(t, "EXECUTING", "REPLAN_REVIEW")
    /\ Fresh(p)
    /\ t \notin replanned
    /\ candidate' = [candidate EXCEPT ![t] = {p}]
    /\ replanned' = replanned \cup {t}
    /\ UNCHANGED <<current, retired>>

Accept(t) ==
    /\ Moves(t, "REPLAN_REVIEW", "EXECUTING")
    /\ retired' = retired \cup current[t]
    /\ current' = [current EXCEPT ![t] = candidate[t]]
    /\ candidate' = [candidate EXCEPT ![t] = {}]
    /\ UNCHANGED replanned

Reject(t) ==
    /\ Moves(t, "REPLAN_REVIEW", "EXECUTING")
    /\ retired' = retired \cup candidate[t]
    /\ candidate' = [candidate EXCEPT ![t] = {}]
    /\ UNCHANGED <<current, replanned>>

Finish(t) ==
    /\ Moves(t, "EXECUTING", "COMPLETED")
    /\ UNCHANGED <<current, candidate, retired, replanned>>

Init ==
    /\ phase = [t \in Trip |-> "NONE"]
    /\ current = [t \in Trip |-> {}]
    /\ candidate = [t \in Trip |-> {}]
    /\ retired = {}
    /\ replanned = {}

Next == \E t \in Trip :
    \/ \E p \in Plan : Propose(t, p) \/ ProposeReplacement(t, p)
    \/ Adopt(t) \/ Start(t) \/ Accept(t) \/ Reject(t) \/ Finish(t)

Spec == Init /\ [][Next]_vars
=============================================================================
