--------------------------- MODULE SiblingPlaces ---------------------------
(***************************************************************************)
(* The places of the days of a parent trip: what                           *)
(* app/application/parent_trip_service.py remembers of the plans of the    *)
(* other days, and the requests of the planning boundary that it refuses.  *)
(*                                                                         *)
(* The planning requests run one after the other on the event loop; the    *)
(* requests that link a day run on threads of their own, so that a day may *)
(* be linked after a plan was checked and before it is written.            *)
(***************************************************************************)
EXTENDS Naturals, FiniteSets

CONSTANTS None, Child,
          Places,   \* the places of the provider, by identity
          Plans     \* the sets of places that a plan may visit

VARIABLES
    linked,    \* the children that are linked to a day of the parent trip
    v1, v2,    \* the status and the places of the two plans of each child
    checked    \* the planning request under way, and the links it has seen

placeVars == <<linked, v1, v2, checked>>

NoPlan == [status |-> "NONE", places |-> {}]

\* The places of the plan in force.
CurrentPlaces(c) ==
    IF v2[c].status = "CURRENT" THEN v2[c].places
    ELSE IF v1[c].status = "CURRENT" THEN v1[c].places ELSE {}

\* The plan in force, or else the first version that is proposed; the way back
\* to the hotel is no place to remember.
Remembered(c) ==
    IF v1[c].status = "PROPOSED" THEN v1[c].places ELSE CurrentPlaces(c)

\* A child that is not linked has no siblings.
Memory(c) ==
    IF c \in linked THEN UNION {Remembered(s) : s \in linked \ {c}} ELSE {}

\* Mutant: a plan that is already stored is not looked at again.
UniqueOnce(c, p, stored) == stored \/ p \cap Memory(c) = {}

Unique(c, p, stored) == p \cap Memory(c) = {}

-----------------------------------------------------------------------------
Link(c) ==
    /\ c \notin linked
    /\ linked' = linked \cup {c}
    /\ UNCHANGED <<v1, v2, checked>>

\* The check of a planning request: what it is to write is checked.write.
Check(c, p, write, stored) ==
    /\ checked = None
    /\ Unique(c, p, stored)
    /\ checked' = [child |-> c, places |-> p, write |-> write, links |-> linked]
    /\ UNCHANGED <<linked, v1, v2>>

GenerateV1(c, p) == v1[c].status = "NONE" /\ Check(c, p, "V1", FALSE)

ConfirmV1(c) == v1[c].status = "PROPOSED" /\ Check(c, v1[c].places, "CONFIRM", TRUE)

GenerateV2(c, p) ==
    v1[c].status = "CURRENT" /\ v2[c].status = "NONE" /\ Check(c, p, "V2", FALSE)

AcceptV2(c) == v2[c].status = "PROPOSED" /\ Check(c, v2[c].places, "ACCEPT", TRUE)

\* The transaction of the plan store that ends the request.
Commit ==
    /\ checked # None
    /\ LET c == checked.child
           proposed == [status |-> "PROPOSED", places |-> checked.places]
       IN  \/ /\ checked.write = "V1"
              /\ v1' = [v1 EXCEPT ![c] = proposed]
              /\ UNCHANGED v2
           \/ /\ checked.write = "CONFIRM"
              /\ v1' = [v1 EXCEPT ![c].status = "CURRENT"]
              /\ UNCHANGED v2
           \/ /\ checked.write = "V2"
              /\ v2' = [v2 EXCEPT ![c] = proposed]
              /\ UNCHANGED v1
           \/ /\ checked.write = "ACCEPT"
              /\ v1' = [v1 EXCEPT ![c].status = "SUPERSEDED"]
              /\ v2' = [v2 EXCEPT ![c].status = "CURRENT"]
    /\ checked' = None
    /\ UNCHANGED linked

\* A rejection needs no check.
RejectV2(c) ==
    /\ checked = None
    /\ v2[c].status = "PROPOSED"
    /\ v2' = [v2 EXCEPT ![c].status = "REJECTED"]
    /\ UNCHANGED <<linked, v1, checked>>

Init ==
    /\ linked = {}
    /\ v1 = [c \in Child |-> NoPlan]
    /\ v2 = [c \in Child |-> NoPlan]
    /\ checked = None

Next ==
    \/ \E c \in Child :
          \/ Link(c)
          \/ \E p \in Plans : GenerateV1(c, p) \/ GenerateV2(c, p)
          \/ ConfirmV1(c) \/ AcceptV2(c) \/ RejectV2(c)
    \/ Commit

Spec == Init /\ [][Next]_placeVars

-----------------------------------------------------------------------------
PlanRow == [status : {"NONE", "PROPOSED", "CURRENT", "SUPERSEDED", "REJECTED"},
            places : SUBSET Places]

TypeOK ==
    /\ linked \subseteq Child
    /\ v1 \in [Child -> PlanRow] /\ v2 \in [Child -> PlanRow]
    /\ checked # None => checked.child \in Child /\ checked.links \subseteq linked

Shares(c, d) == c # d /\ c \in linked /\ d \in linked /\ CurrentPlaces(c) \cap CurrentPlaces(d) # {}

(***************************************************************************)
(* Two days whose plans in force visit the same place got there by a link: *)
(* either the link joined two plans in force, or it came between the check *)
(* of a decision and its write.  A decision on days that were linked all   *)
(* along never repeats a place (require_unique_candidate_places).          *)
(***************************************************************************)
SharingComesFromLinking ==
    [][\A c, d \in Child :
          Shares(c, d)' /\ ~Shares(c, d) =>
              linked' # linked \/ (checked # None /\ checked.links # linked)]_placeVars
=============================================================================
