---------------------------- MODULE Relaxations ----------------------------
(***************************************************************************)
(* What keeps a draft from being agreed, and how it may be settled: the    *)
(* contract of an understood trip (TripUnderstandingProposal of            *)
(* app/domain/trip_draft.py), the items that the evaluator of              *)
(* app/domain/hard_conflicts.py finds in it, and the change of the draft   *)
(* that a relaxation makes (_apply_patch of the draft revision service).   *)
(*                                                                         *)
(* A path names a field: of the trip, if "of" is 0, or of a member; "at"   *)
(* is the place in a list.  Every value has a piece of evidence, a         *)
(* sentence of the conversation, at its path.                              *)
(***************************************************************************)
EXTENDS CareRules

Path(of, field, at) == [of |-> of, field |-> field, at |-> at]

Lists == {"must", "avoid"}
Amounts == {"budget", "cap"}      \* a text is never valid there

\* A draft as its types have it; its members are numbered from one.
IsTraits(m) ==
    /\ DOMAIN m = {"cap", "must", "avoid", "care"}
    /\ m.cap \in Nat \cup {None}
    /\ \A f \in Lists : m[f] \in Seq(ToSet(m[f]))

IsDraft(u) ==
    /\ DOMAIN u = {"trip", "members", "missing", "candidates", "questions", "evidence"}
    /\ DOMAIN u.trip = {"start", "end", "budget"}
    /\ u.trip.budget \in Nat \cup {None}
    /\ 0 \notin DOMAIN u.members
    /\ \A i \in DOMAIN u.members : IsTraits(u.members[i])

Value(u, p) ==
    IF p.of = 0 THEN u.trip[p.field]
    ELSE IF p.field \in Lists THEN u.members[p.of][p.field][p.at]
    ELSE u.members[p.of][p.field]

Paths(u) ==
    [of : {0}, field : DOMAIN u.trip, at : {0}]
    \cup [of : DOMAIN u.members, field : {"cap", "care"}, at : {0}]
    \cup UNION {{Path(i, f, k) : k \in DOMAIN u.members[i][f]} :
                   i \in DOMAIN u.members, f \in Lists}

Valued(u) == {p \in Paths(u) : Value(u, p) # None}

\* An open field is one that is missing or has several candidates.
Open(u) == u.missing \cup DOMAIN u.candidates

Valid(u) ==
    /\ \A i \in DOMAIN u.members, f \in Lists : IsInjective(u.members[i][f])
    /\ u.evidence = Valued(u)
    /\ Open(u) \subseteq Paths(u)
    /\ u.missing \cap DOMAIN u.candidates = {}
    /\ u.questions = Open(u)

-----------------------------------------------------------------------------
(* The items, and the relaxations that are offered for them.               *)

\* The member who may choose it, 0 for the organizer, and the change it makes.
Relaxation(action, member, path, value) ==
    [action |-> action, member |-> member, path |-> path, value |-> value]

Item(rule, path, about, relaxations) ==
    [rule |-> rule, path |-> path, about |-> about, relaxations |-> relaxations]

MissingItems(u) == {Item("MISSING", p, None, {}) : p \in u.missing}

AmbiguousItems(u) ==
    {Item("AMBIGUOUS", p, u.candidates[p],
          {Relaxation("SELECT_CANDIDATE", p.of, p, c) : c \in u.candidates[p]}) :
        p \in DOMAIN u.candidates}

TimeItems(u) ==
    LET end == Path(0, "end", 0)
        wrong == None \notin {u.trip.start, u.trip.end} /\ u.trip.end <= u.trip.start
    IN  IF wrong
        THEN {Item("WINDOW_ORDER", end, <<u.trip.start, u.trip.end>>,
                   {Relaxation("SET_SHARED_FIELD", 0, end, None)})}
        ELSE {}

BudgetItems(u) ==
    LET below == {i \in DOMAIN u.members :
                     /\ None \notin {u.trip.budget, u.members[i].cap}
                     /\ u.members[i].cap < u.trip.budget}
        cap(i) == Path(i, "cap", 0)
    IN  {Item("CAP_BELOW_SHARED", cap(i), <<u.trip.budget, u.members[i].cap>>,
              {Relaxation("LOWER_SHARED_BUDGET", 0, Path(0, "budget", 0), u.members[i].cap),
               Relaxation("RAISE_MEMBER_BUDGET_CAP", i, cap(i), u.trip.budget)}) : i \in below}

\* A place that one member must see and one wants to avoid.
PlaceItems(u) ==
    LET listed(f) == {p \in Paths(u) : p.field = f}
    IN  {Item("MUST_AVOID", c[2], <<Value(u, c[1]), c[1]>>,
              {Relaxation("REMOVE_MUST_VISIT", c[1].of, c[1], None),
               Relaxation("REMOVE_AVOID_PLACE", c[2].of, c[2], None)}) :
            c \in {d \in listed("must") \X listed("avoid") : Value(u, d[1]) = Value(u, d[2])}}

\* A care profile that is missing or cannot be built; only then the naps count.
CareItems(u) ==
    LET unclear == {i \in DOMAIN u.members :
                       u.members[i].care = None \/ ~u.members[i].care.valid}
        naps == {u.members[i].care.nap : i \in DOMAIN u.members \ unclear} \ {None}
        nap == Merged("nap", naps)
        allDay == /\ naps # {} /\ None \notin {u.trip.start, u.trip.end}
                  /\ nap[1] <= u.trip.start /\ u.trip.end <= nap[2]
        end == Path(0, "end", 0)
    IN  IF unclear # {}
        THEN {Item("PROFILE_INVALID", Path(i, "care", 0), None, {}) : i \in unclear}
        ELSE IF allDay
        THEN {Item("BLOCKS_ALL_DAY", end, nap,
                   {Relaxation("EXTEND_SHARED_TIME", 0, end, None)})}
        ELSE {}

Evaluate(u) ==
    MissingItems(u) \cup AmbiguousItems(u) \cup TimeItems(u) \cup BudgetItems(u)
        \cup PlaceItems(u) \cup CareItems(u)

-----------------------------------------------------------------------------
(* The change.                                                             *)

SetPath(u, p, v) ==
    IF p.of = 0 THEN [u EXCEPT !.trip[p.field] = v]
    ELSE IF p.field \in Lists THEN [u EXCEPT !.members[p.of][p.field][p.at] = v]
    ELSE [u EXCEPT !.members[p.of][p.field] = v]

RemovePath(u, p) == [u EXCEPT !.members[p.of][p.field] = RemoveAt(@, p.at)]

\* Mutant: the field keeps its candidates and its question.
StillOpen(u, p) == u

Settled(u, p) ==
    [u EXCEPT !.candidates = [q \in DOMAIN @ \ {p} |-> @[q]],
              !.questions = @ \ {p}]

Patched(u, r) ==
    CASE r.action \in {"REMOVE_MUST_VISIT", "REMOVE_AVOID_PLACE"} -> RemovePath(u, r.path)
      [] r.action = "SELECT_CANDIDATE" -> Settled(SetPath(u, r.path, r.value), r.path)
      [] OTHER -> SetPath(u, r.path, r.value)

\* The patched draft, if it still keeps the contract.  A candidate is a text.
ApplyPatch(u, r) ==
    IF \/ ~Valid(Patched(u, r))
       \/ r.action = "SELECT_CANDIDATE" /\ r.path.field \in Amounts
    THEN Refused("TRIP_UNDERSTANDING_INVALID")
    ELSE Accepted(Patched(u, r))

Offers(u) ==
    UNION {{[item |-> i, relaxation |-> r] : r \in i.relaxations} : i \in Evaluate(u)}

\* What each relaxation that is offered for an item makes of the draft.
Relaxed(u) == [o \in Offers(u) |-> ApplyPatch(u, o.relaxation)]

-----------------------------------------------------------------------------
(* What a relaxation promises; "relaxed" is the value of Relaxed(u).       *)

Identity(item) == <<item.rule, item.path, item.about>>

(***************************************************************************)
(* A relaxation that is applied settles its item, and does no more than    *)
(* the one who chose it may: a member's choice leaves the trip and the     *)
(* other members as they were, the organizer's leaves every member.        *)
(***************************************************************************)
RelaxationsSettle(u, relaxed) ==
    \A o \in {c \in DOMAIN relaxed : relaxed[c].code = "OK"} :
        LET v == relaxed[o].value
            chooser == o.relaxation.member
        IN  /\ Identity(o.item) \notin {Identity(i) : i \in Evaluate(v)}
            /\ chooser # 0 => v.trip = u.trip
            /\ \A i \in DOMAIN u.members \ {chooser} : v.members[i] = u.members[i]

(***************************************************************************)
(* "Choosing a relaxation that the server offers makes the next revision"  *)
(* (s2-t002-draft-revision-design.md, AC9): whatever is offered can be     *)
(* applied.                                                                *)
(***************************************************************************)
OfferedRelaxationsApply(relaxed) == \A o \in DOMAIN relaxed : relaxed[o].code = "OK"
=============================================================================
