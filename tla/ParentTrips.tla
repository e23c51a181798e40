---------------------------- MODULE ParentTrips ----------------------------
(***************************************************************************)
(* A trip of several days and its members: the tables of                   *)
(* app/infrastructure/parent_trip_store.py and the requests of             *)
(* app/application/parent_trip_service.py.                                 *)
(*                                                                         *)
(* The routes of a parent trip are plain functions, so the server runs     *)
(* them on the threads of a pool: between two transactions of one request  *)
(* other requests run, the ones of the event loop included.  Each method   *)
(* of the store is one BEGIN IMMEDIATE transaction, hence one step.        *)
(*                                                                         *)
(* One parent trip.  A seat and its invitation are made together and are   *)
(* named by the invitation's idempotency key, from which its token is      *)
(* derived.                                                                *)
(***************************************************************************)
EXTENDS Naturals, FiniteSets

CONSTANTS None,
          Day,          \* the dates of the parent trip
          Child,        \* single-day trips that may be linked to a date
          Budgets,      \* amounts of money
          ChildTrip,    \* the dates and budgets that a child may be agreed with
          Seat,         \* idempotency keys of the invitations
          RedeemKey,    \* idempotency keys of the redemptions
          Account,
          Thread,       \* threads that serve the routes of the days
          MaxMembers,   \* MAX_PARENT_TRIP_PARTICIPANTS
          MaxSync,      \* bound on the synchronisation version
          MaxTime       \* bound on the clock

VARIABLES
    days,       \* parent_trip_days: the budget and the linked child of a date
    sync,       \* parent_trip_sync_state, 0 until the trip is created
    seats,      \* parent_trip_members and parent_trip_invitations
    sessions,   \* parent_trip_member_sessions, by seat
    childTrip,  \* the date and the budget of a child's agreed revision
    request,    \* what each thread has read
    seen,       \* the last view each client has polled
    parentTime

parentVars == <<days, sync, seats, sessions, childTrip, request, seen, parentTime>>

Viewer == {"ORGANIZER"} \cup Seat

NoSeat == [status |-> "NONE", expires |-> 0, account |-> None, profile |-> 0, key |-> None]

Members == {s \in Seat : seats[s].status # "NONE"}

\* What the poll shows of the parent trip's own tables: a member sees the
\* seat that is its own, the organizer sees them all.
ViewOf(v) ==
    [days |-> days,
     seats |-> [s \in IF v = "ORGANIZER" THEN Seat ELSE {v} |->
                   [status |-> seats[s].status, account |-> seats[s].account,
                    profile |-> seats[s].profile]]]

Authenticated(s) == sessions[s] # None /\ sessions[s].expires > parentTime

-----------------------------------------------------------------------------
(* The trip and its dates.                                                 *)

BumpSync == sync < MaxSync /\ sync' = sync + 1

\* A repeated request finds the same trip and writes nothing.
Create ==
    /\ sync = 0
    /\ sync' = 1
    /\ \E b \in [Day -> Budgets] : days' = [d \in Day |-> [budget |-> b[d], child |-> None]]
    /\ UNCHANGED <<seats, sessions, childTrip, request, seen, parentTime>>

\* The members of a child agree on a further revision of it.
ReviseChild(c) ==
    /\ \E t \in ChildTrip : childTrip' = [childTrip EXCEPT ![c] = t]
    /\ UNCHANGED <<days, sync, seats, sessions, request, seen, parentTime>>

\* The requests that a date accepts: link a child, or change the budget.
Requests == [kind : {"LINK"}, day : Day, child : Child]
                \cup [kind : {"BUDGET"}, day : Day, budget : Budgets]

\* The rows are read in a transaction of their own.
ReadDays(w, r) ==
    /\ sync > 0
    /\ request[w] = None
    /\ request' = [request EXCEPT ![w] =
          [ask |-> r, row |-> days[r.day], trip |-> None,
           checked |-> r.kind = "BUDGET" /\ days[r.day].child = None]]
    /\ UNCHANGED <<days, sync, seats, sessions, childTrip, seen, parentTime>>

\* Mutant: a link is checked by its date alone.
MayLinkByDate(q, trip) == trip.date = q.ask.day

\* The child of a link is on the date and within the budget that were read.
MayLink(q, trip) ==
    trip.date = q.ask.day /\ trip.budget # None /\ trip.budget <= q.row.budget

\* The new budget is no lower than that of the child that was read.
MaySetBudget(q, trip) == trip.budget # None => q.ask.budget >= trip.budget

\* The child that a request looks at.
ChildOf(q) == IF q.ask.kind = "LINK" THEN q.ask.child ELSE q.row.child

CheckChild(w) ==
    /\ request[w] # None /\ ~request[w].checked
    /\ LET q == request[w]
           trip == childTrip[ChildOf(q)]
           passes == \/ q.ask.kind = "LINK" /\ MayLink(q, trip)
                     \/ q.ask.kind = "BUDGET" /\ MaySetBudget(q, trip)
       IN  request' = [request EXCEPT ![w] =
              IF passes THEN [q EXCEPT !.checked = TRUE, !.trip = trip] ELSE None]
    /\ UNCHANGED <<days, sync, seats, sessions, childTrip, seen, parentTime>>

\* Mutants: a date is linked without a look at the row of this transaction;
\* the version does not tell of a new link.
LinkAnyDate(d, c) ==
    /\ days' = [days EXCEPT ![d].child = c]
    /\ BumpSync

LinkSilently(d, c) ==
    /\ days[d].child = None
    /\ \A other \in Day : days[other].child # c
    /\ days' = [days EXCEPT ![d].child = c]
    /\ UNCHANGED sync

\* A date takes one child for good, a child has one date.
Link(d, c) ==
    /\ days[d].child = None
    /\ \A other \in Day : days[other].child # c
    /\ days' = [days EXCEPT ![d].child = c]
    /\ BumpSync

\* An equal amount leaves the version alone.
SetBudget(d, b) ==
    /\ days' = [days EXCEPT ![d].budget = b]
    /\ IF days[d].budget = b THEN UNCHANGED sync ELSE BumpSync

Write(w) ==
    /\ request[w] # None /\ request[w].checked
    /\ LET r == request[w].ask
       IN  \/ r.kind = "LINK" /\ Link(r.day, r.child)
           \/ r.kind = "BUDGET" /\ SetBudget(r.day, r.budget)
    /\ request' = [request EXCEPT ![w] = None]
    /\ UNCHANGED <<seats, sessions, childTrip, seen, parentTime>>

\* The store refuses the link: the request ends without a write.
Refused(w) ==
    /\ request[w] # None /\ request[w].checked /\ request[w].ask.kind = "LINK"
    /\ \/ days[request[w].ask.day].child # None
       \/ \E other \in Day : days[other].child = request[w].ask.child
    /\ request' = [request EXCEPT ![w] = None]
    /\ UNCHANGED <<days, sync, seats, sessions, childTrip, seen, parentTime>>

-----------------------------------------------------------------------------
(* The members.                                                            *)

\* A repeated key returns the invitation and writes nothing.
CreateInvitation(s, hours) ==
    /\ sync > 0
    /\ seats[s].status = "NONE"
    /\ seen["ORGANIZER"].version = sync
    /\ Cardinality(Members) + 1 < MaxMembers
    /\ seats' = [seats EXCEPT ![s] = [NoSeat EXCEPT !.status = "INVITED",
                                                    !.expires = parentTime + hours,
                                                    !.profile = 1]]
    /\ BumpSync
    /\ UNCHANGED <<days, sessions, childTrip, request, seen, parentTime>>

\* The same key and account get the same session again, and write nothing.
MayRedeem(s, a) ==
    /\ seats[s].status = "INVITED"
    /\ seats[s].expires > parentTime
    /\ a # None => \A other \in Members \ {s} : seats[other].account # a

\* Mutant: the invitation does not keep the key that redeemed it.
RedeemKeyless(s, k, a, lifetime) ==
    /\ MayRedeem(s, a)
    /\ seats' = [seats EXCEPT ![s].status = "MEMBER_ACTIVE", ![s].account = a]
    /\ sessions' = [sessions EXCEPT ![s] = [key |-> k, expires |-> parentTime + lifetime]]
    /\ BumpSync
    /\ UNCHANGED <<days, childTrip, request, seen, parentTime>>

\* The route asks for no account: the caller's, or None.
RedeemInvitation(s, k, a, lifetime) ==
    /\ MayRedeem(s, a)
    /\ seats' = [seats EXCEPT ![s].status = "MEMBER_ACTIVE", ![s].account = a, ![s].key = k]
    /\ sessions' = [sessions EXCEPT ![s] = [key |-> k, expires |-> parentTime + lifetime]]
    /\ BumpSync
    /\ UNCHANGED <<days, childTrip, request, seen, parentTime>>

HasSeen(v) == seen[v].version = sync

UpdateMemberProfile(s) ==
    /\ Authenticated(s)
    /\ HasSeen(s)
    /\ seats' = [seats EXCEPT ![s].profile = @ + 1]
    /\ BumpSync
    /\ UNCHANGED <<days, sessions, childTrip, request, seen, parentTime>>

\* A poll reads the rows and their version in one transaction.  The children
\* are looked at afterwards, and the view is withheld if one of them has left
\* its date or its budget: such a poll shows nothing, as if it had not been.
Poll(v) ==
    /\ sync > 0
    /\ v # "ORGANIZER" => Authenticated(v)
    /\ seen' = [seen EXCEPT ![v] = [version |-> sync, view |-> ViewOf(v)]]
    /\ UNCHANGED <<days, sync, seats, sessions, childTrip, request, parentTime>>

Tick ==
    /\ parentTime < MaxTime
    /\ parentTime' = parentTime + 1
    /\ UNCHANGED <<days, sync, seats, sessions, childTrip, request, seen>>

-----------------------------------------------------------------------------
Init ==
    /\ days = [d \in Day |-> [budget |-> 0, child |-> None]]
    /\ sync = 0
    /\ seats = [s \in Seat |-> NoSeat]
    /\ sessions = [s \in Seat |-> None]
    /\ \E t \in ChildTrip : childTrip = [c \in Child |-> t]
    /\ request = [w \in Thread |-> None]
    /\ seen = [v \in Viewer |-> [version |-> 0, view |-> None]]
    /\ parentTime = 0

Next ==
    \/ Create
    \/ \E c \in Child : ReviseChild(c)
    \/ \E w \in Thread :
          \/ \E r \in Requests : ReadDays(w, r)
          \/ CheckChild(w)
          \/ Write(w)
          \/ Refused(w)
    \/ \E s \in Seat :
          \/ CreateInvitation(s, 1)
          \/ \E k \in RedeemKey, a \in Account \cup {None} : RedeemInvitation(s, k, a, 1)
          \/ UpdateMemberProfile(s)
    \/ \E v \in Viewer : Poll(v)
    \/ Tick

Spec == Init /\ [][Next]_parentVars

-----------------------------------------------------------------------------
Day1 == [budget : Budgets \cup {0}, child : Child \cup {None}]

TypeOK ==
    /\ days \in [Day -> Day1]
    /\ sync \in 0..MaxSync
    /\ seats \in [Seat -> [status : {"NONE", "INVITED", "MEMBER_ACTIVE"},
                           expires : 0..(MaxTime + 1),
                           account : Account \cup {None},
                           profile : 0..MaxSync,
                           key : RedeemKey \cup {None}]]
    \* the invitation names the key that its session was made with
    /\ \A s \in Seat :
          IF seats[s].status = "MEMBER_ACTIVE"
          THEN sessions[s] # None /\ sessions[s].key = seats[s].key
          ELSE sessions[s] = None /\ seats[s].key = None
    /\ childTrip \in [Child -> ChildTrip]
    /\ \A v \in Viewer : seen[v].version <= sync

(***************************************************************************)
(* A client that holds the current version holds the current view: the     *)
(* expected version of an edit stands for everything its author saw        *)
(* (_bump_sync is called by every method that changes the rows).           *)
(***************************************************************************)
SameVersionSameView ==
    \A v \in Viewer : seen[v].version = sync /\ sync > 0 => seen[v].view = ViewOf(v)

(***************************************************************************)
(* A linked date keeps its child, and no child gets a second date, however *)
(* late the thread that read the date comes to write it.                   *)
(***************************************************************************)
LinksAreFinal ==
    [][/\ \A d \in Day : days[d].child # None => days'[d].child = days[d].child
       /\ \A d, e \in Day : days'[d].child = days'[e].child /\ d # e =>
              days'[d].child = None]_parentVars

\* The sums of a date are withheld: its child is elsewhere or over the budget.
Drifts(d) ==
    /\ days[d].child # None
    /\ LET trip == childTrip[days[d].child]
       IN  trip.date # d \/ trip.budget = None \/ trip.budget > days[d].budget

\* What the thread read is what the tables still hold.
UpToDate(q) ==
    /\ q.row = days[q.ask.day]
    /\ ChildOf(q) # None => q.trip = childTrip[ChildOf(q)]

(***************************************************************************)
(* A request of the parent trip puts a date out of step with its child     *)
(* only in a race: the date or the child has changed since the thread      *)
(* looked at it (link_day and update_day_budget check outside of the       *)
(* transaction that writes).                                               *)
(***************************************************************************)
DriftComesFromARace ==
    [][\A d \in Day :
          Drifts(d)' /\ ~Drifts(d) /\ UNCHANGED childTrip =>
              \E w \in Thread : /\ request[w] # None /\ request'[w] = None
                               /\ request[w].ask.day = d
                               /\ ~UpToDate(request[w])]_parentVars
=============================================================================
