---------------------------- MODULE TripInputs -----------------------------
(***************************************************************************)
(* What a trip must have before it is planned, and which of the two flows  *)
(* owns it: confirmed_trip_inputs, constraint_profiles and                 *)
(* two_day_trip_snapshots of app/infrastructure/workflow_store.py, the     *)
(* registry of app/infrastructure/trip_flow_store.py, and the projection   *)
(* of an agreed revision (app/application/collaboration_planning_bridge.py *)
(* ).  A database of an older version holds confirmed trips that are in no *)
(* registry; the server classifies them when it starts.                    *)
(***************************************************************************)
EXTENDS Naturals, FiniteSets

CONSTANTS None, Trip,
          Bodies,   \* what a trip asks for
          Care      \* assistance profiles

VARIABLES
    flow,       \* trip_flow_registry
    confirmed,  \* confirmed_trip_inputs
    care,       \* constraint_profiles
    snapshot,   \* two_day_trip_snapshots
    rejected,   \* trip_flow_migration_errors: the trips left unregistered
    revision,   \* the agreed revision of a collaboration, external to this store
    handing     \* a projection under way: the transactions it still has to run

inputVars == <<flow, confirmed, care, snapshot, rejected, revision, handing>>

Flow == {"LEGACY_SINGLE", "COLLABORATION_V2"}

\* A trip as it is stored; an old row may be no trip the program can read.
Content == [mode : {"SINGLE", "GROUP"}, body : Bodies, care : Care]

Unreadable == [mode |-> "UNREADABLE", body |-> None, care |-> None]

NoCare == [status |-> "NONE", profile |-> None]

-----------------------------------------------------------------------------
(* The registry.                                                           *)

\* register_trip_flow refuses a second kind; the same kind writes nothing.
MayRegister(t, kind) == flow[t] \in {None, kind}

Register(f, t, kind) == [f EXCEPT ![t] = IF @ = None THEN kind ELSE @]

\* Mutant: every readable row is a single trip.
IsReadable(row) == row # None /\ row.mode # "UNREADABLE"

IsLegacySingle(row) == row # None /\ row.mode = "SINGLE"

\* A registered trip keeps its kind, whatever its confirmed row looks like.
Unclassified(t) == flow[t] = None /\ confirmed[t] # None

BackfillConfirmedSingleFlows ==
    /\ flow' = [t \in Trip |-> IF Unclassified(t) /\ IsLegacySingle(confirmed[t])
                               THEN "LEGACY_SINGLE" ELSE flow[t]]
    /\ rejected' = rejected \cup
          {t \in Trip : Unclassified(t) /\ ~IsLegacySingle(confirmed[t])}

-----------------------------------------------------------------------------
(* The store.                                                              *)

\* A trip that was confirmed is confirmed again only with the same content.
MayConfirm(t, row) == confirmed[t] \in {None, row}

ConfirmTrip(t, row, kind) ==
    /\ MayConfirm(t, row)
    /\ MayRegister(t, kind)
    /\ confirmed' = [confirmed EXCEPT ![t] = row]
    /\ flow' = Register(flow, t, kind)

\* The parser runs again for the confirmation: what it returns may differ from
\* what it showed.
ConfirmDraft(t, row) ==
    /\ row.mode = "SINGLE"
    /\ ConfirmTrip(t, row, "LEGACY_SINGLE")
    /\ UNCHANGED <<care, snapshot, rejected, revision, handing>>

\* An equal profile that is confirmed stays so; any other draft replaces it.
SaveDraft(t, p) ==
    care' = [care EXCEPT ![t] = IF @ = [status |-> "CONFIRMED", profile |-> p]
                                THEN @ ELSE [status |-> "DRAFT", profile |-> p]]

ConfirmProfile(t) ==
    /\ care[t].status # "NONE"
    /\ care' = [care EXCEPT ![t].status = "CONFIRMED"]

SaveConstraints(t, p) ==
    SaveDraft(t, p) /\ UNCHANGED <<flow, confirmed, snapshot, rejected, revision, handing>>

ConfirmConstraints(t) ==
    ConfirmProfile(t) /\ UNCHANGED <<flow, confirmed, snapshot, rejected, revision, handing>>

SaveTwoDay(t, b) ==
    /\ snapshot[t] \in {None, b}
    /\ snapshot' = [snapshot EXCEPT ![t] = b]
    /\ UNCHANGED <<flow, confirmed, care, rejected, revision, handing>>

-----------------------------------------------------------------------------
(* The collaboration.                                                      *)

\* Its first session registers the trip; a later revision does so no more.
AgreeOn(t, row) ==
    /\ MayRegister(t, "COLLABORATION_V2")
    /\ flow' = Register(flow, t, "COLLABORATION_V2")
    /\ revision' = [revision EXCEPT ![t] = row]
    /\ UNCHANGED <<confirmed, care, snapshot, rejected, handing>>

\* The projection persists the trip, and for a traveller alone the draft of the
\* profile and its confirmation, each in a transaction of its own.
Materialize(t) ==
    /\ handing = None
    /\ revision[t] # None
    /\ ConfirmTrip(t, revision[t], "COLLABORATION_V2")
    /\ handing' = IF revision[t].mode = "SINGLE"
                  THEN [trip |-> t, profile |-> revision[t].care, next |-> "DRAFT"] ELSE None
    /\ UNCHANGED <<care, snapshot, rejected, revision>>

HandOver ==
    /\ handing # None
    /\ \/ /\ handing.next = "DRAFT"
          /\ SaveDraft(handing.trip, handing.profile)
          /\ handing' = [handing EXCEPT !.next = "CONFIRM"]
       \/ /\ handing.next = "CONFIRM"
          /\ ConfirmProfile(handing.trip)
          /\ handing' = None
    /\ UNCHANGED <<flow, confirmed, snapshot, rejected, revision>>

\* The server dies and starts again; each start classifies the old rows.
Restart ==
    /\ handing' = None
    /\ BackfillConfirmedSingleFlows
    /\ UNCHANGED <<confirmed, care, snapshot, revision>>

Init ==
    /\ flow = [t \in Trip |-> None]
    /\ confirmed \in [Trip -> {None, Unreadable} \cup Content]
    /\ care = [t \in Trip |-> NoCare]
    /\ snapshot = [t \in Trip |-> None]
    /\ rejected = {}
    /\ revision = [t \in Trip |-> None]
    /\ handing = None

\* A request of the event loop runs to its end; a projection can only be cut
\* short by a crash.
Request ==
    \/ \E t \in Trip, row \in Content : ConfirmDraft(t, row) \/ AgreeOn(t, row)
    \/ \E t \in Trip, p \in Care : SaveConstraints(t, p)
    \/ \E t \in Trip : ConfirmConstraints(t) \/ Materialize(t)
    \/ \E t \in Trip, b \in Bodies : SaveTwoDay(t, b)

Next == (handing = None /\ Request) \/ HandOver \/ Restart

Spec == Init /\ [][Next]_inputVars

-----------------------------------------------------------------------------
TypeOK ==
    /\ flow \in [Trip -> Flow \cup {None}]
    /\ confirmed \in [Trip -> {None, Unreadable} \cup Content]
    /\ care \in [Trip -> [status : {"NONE", "DRAFT", "CONFIRMED"}, profile : Care \cup {None}]]
    /\ snapshot \in [Trip -> Bodies \cup {None}]
    /\ rejected \subseteq Trip
    /\ revision \in [Trip -> Content \cup {None}]

(***************************************************************************)
(* A trip keeps the flow it was given and the content it was confirmed     *)
(* with, across restarts and whichever of the two flows comes second; the  *)
(* single flow owns only trips of one traveller (register_trip_flow,       *)
(* backfill_confirmed_single_flows, _confirm_trip).                        *)
(***************************************************************************)
OneFlowPerTrip ==
    [][\A t \in Trip :
          /\ flow[t] # None => flow'[t] = flow[t]
          /\ confirmed[t] # None => confirmed'[t] = confirmed[t]
          /\ flow'[t] = "LEGACY_SINGLE" => confirmed'[t].mode = "SINGLE"]_inputVars
=============================================================================
