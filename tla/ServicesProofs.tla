--------------------------- MODULE ServicesProofs ---------------------------
(***************************************************************************)
(* The services around the planning core, for any values of the constants. *)
(***************************************************************************)
EXTENDS Services, PlannerProofs, TLAPS

-----------------------------------------------------------------------------
(* The rows of the dates, and what the threads ask for.                    *)

Requested(w) ==
    request[w] # None =>
        LET q == request[w]
        IN  /\ q = [ask |-> q.ask, row |-> q.row, trip |-> q.trip, checked |-> q.checked]
            /\ q.ask \in PT!Requests

Rows ==
    /\ days \in [Day -> PT!Day1]
    /\ DOMAIN request = Thread
    /\ \A w \in Thread : Requested(w)

LEMMA RowsInit == PT!Init => Rows
  BY DEF PT!Init, Rows, Requested, PT!Day1

LEMMA WriteKeepsRows ==
    ASSUME Rows, NEW w \in Thread, PT!Write(w)
    PROVE  days' \in [Day -> PT!Day1]
<1>1. request[w].ask \in PT!Requests
  BY DEF Rows, Requested, PT!Write
<1>2. CASE request[w].ask.kind = "LINK"
  <2>1. request[w].ask.day \in Day /\ request[w].ask.child \in Child
    BY <1>1, <1>2 DEF PT!Requests
  <2>2. days' = [days EXCEPT ![request[w].ask.day].child = request[w].ask.child]
    BY <1>2 DEF PT!Write, PT!Link
  <2> QED  BY <2>1, <2>2 DEF Rows, PT!Day1
<1>3. CASE request[w].ask.kind # "LINK"
  <2>1. request[w].ask.day \in Day /\ request[w].ask.budget \in Budgets
    BY <1>1, <1>3 DEF PT!Requests
  <2>2. days' = [days EXCEPT ![request[w].ask.day].budget = request[w].ask.budget]
    BY <1>3 DEF PT!Write, PT!SetBudget
  <2> QED  BY <2>1, <2>2 DEF Rows, PT!Day1
<1> QED  BY <1>2, <1>3

LEMMA RowsNext == Rows /\ [PT!Next]_(PT!parentVars) => Rows'
<1> SUFFICES ASSUME Rows, [PT!Next]_(PT!parentVars) PROVE Rows'
  OBVIOUS
<1>1. CASE PT!Create
  BY <1>1 DEF PT!Create, Rows, Requested, PT!Day1
<1>2. ASSUME NEW w \in Thread, NEW r \in PT!Requests, PT!ReadDays(w, r) PROVE Rows'
  BY <1>2 DEF PT!ReadDays, Rows, Requested
<1>3. ASSUME NEW w \in Thread, PT!CheckChild(w) PROVE Rows'
  <2>1. PICK q : q \in {None, [request[w] EXCEPT !.checked = TRUE,
                                              !.trip = childTrip[PT!ChildOf(request[w])]]}
                 /\ request' = [request EXCEPT ![w] = q]
    BY <1>3 DEF PT!CheckChild
  <2>2. q # None => /\ q.ask = request[w].ask
                    /\ q = [ask |-> q.ask, row |-> q.row, trip |-> q.trip, checked |-> q.checked]
    BY <1>3, <2>1 DEF PT!CheckChild, Rows, Requested
  <2> QED  BY <1>3, <2>1, <2>2 DEF PT!CheckChild, Rows, Requested
<1>4. ASSUME NEW w \in Thread, PT!Write(w) PROVE Rows'
  BY <1>4, WriteKeepsRows DEF PT!Write, Rows, Requested
<1>5. ASSUME NEW w \in Thread, PT!Refused(w) PROVE Rows'
  BY <1>5 DEF PT!Refused, Rows, Requested
<1>6. CASE UNCHANGED <<days, request>>
  BY <1>6 DEF Rows, Requested
<1> QED
  BY <1>1, <1>2, <1>3, <1>4, <1>5, <1>6
  DEF PT!Next, PT!ReviseChild, PT!CreateInvitation, PT!RedeemInvitation, PT!UpdateMemberProfile,
      PT!Poll, PT!Tick,
      PT!parentVars

-----------------------------------------------------------------------------
(* The version of the rows.  It grows with every change that a view can    *)
(* show, so no view that was polled can name it again.                     *)

Versions ==
    /\ sync \in Nat
    /\ \A v \in PT!Viewer : seen[v].version \in Nat /\ seen[v].version <= sync
    /\ DOMAIN seen = PT!Viewer

VersionInv == Rows /\ Versions /\ PT!SameVersionSameView

\* A step that counts the version up leaves every view that was polled behind.
LEMMA CountedUp ==
    ASSUME VersionInv, Rows', sync' = sync + 1, UNCHANGED seen
    PROVE  VersionInv'
  BY DEF VersionInv, Versions, PT!SameVersionSameView

\* A step that shows nothing new changes nothing for any of them.
LEMMA NothingShown ==
    ASSUME VersionInv, Rows', UNCHANGED <<sync, days, seats, seen>>
    PROVE  VersionInv'
<1>1. \A v \in PT!Viewer : PT!ViewOf(v)' = PT!ViewOf(v)
  BY DEF PT!ViewOf
<1> QED  BY <1>1 DEF VersionInv, Versions, PT!SameVersionSameView

LEMMA VersionInit == PT!Init => VersionInv
  BY RowsInit DEF PT!Init, VersionInv, Versions, PT!SameVersionSameView

LEMMA PollKeepsVersions ==
    ASSUME VersionInv, Rows', NEW v \in PT!Viewer, PT!Poll(v)
    PROVE  VersionInv'
<1>1. \A u \in PT!Viewer : PT!ViewOf(u)' = PT!ViewOf(u)
  BY DEF PT!Poll, PT!ViewOf
<1>2. /\ seen' = [seen EXCEPT ![v] = [version |-> sync, view |-> PT!ViewOf(v)]]
      /\ UNCHANGED sync
  BY DEF PT!Poll
<1> QED  BY <1>1, <1>2 DEF VersionInv, Versions, PT!SameVersionSameView

LEMMA WriteKeepsVersions ==
    ASSUME VersionInv, Rows', NEW w \in Thread, PT!Write(w)
    PROVE  VersionInv'
<1>1. UNCHANGED <<seen, seats>>
  BY DEF PT!Write
<1>2. CASE sync' = sync + 1
  BY <1>1, <1>2, CountedUp
<1>3. CASE sync' # sync + 1
  <2>1. PICK d, b : /\ days' = [days EXCEPT ![d].budget = b]
                    /\ days[d].budget = b /\ UNCHANGED sync
    BY <1>3 DEF PT!Write, PT!Link, PT!SetBudget, PT!BumpSync
  <2>2. UNCHANGED days
    BY <2>1 DEF VersionInv, Rows, PT!Day1
  <2> QED  BY <1>1, <2>1, <2>2, NothingShown
<1> QED  BY <1>2, <1>3

LEMMA VersionNext == VersionInv /\ [PT!Next]_(PT!parentVars) => VersionInv'
<1> SUFFICES ASSUME VersionInv, [PT!Next]_(PT!parentVars) PROVE VersionInv'
  OBVIOUS
<1> USE RowsNext DEF VersionInv
<1>1. CASE PT!Create
  BY <1>1, CountedUp DEF PT!Create, Versions
<1>2. ASSUME NEW c \in Child, PT!ReviseChild(c) PROVE VersionInv'
  BY <1>2, NothingShown DEF PT!ReviseChild
<1>3. ASSUME NEW w \in Thread, \/ \E r \in PT!Requests : PT!ReadDays(w, r)
                               \/ PT!CheckChild(w) \/ PT!Refused(w)
      PROVE  VersionInv'
  BY <1>3, NothingShown DEF PT!ReadDays, PT!CheckChild, PT!Refused
<1>4. ASSUME NEW w \in Thread, PT!Write(w) PROVE VersionInv'
  BY <1>4, WriteKeepsVersions
<1>5. ASSUME NEW s \in Seat,
             \/ PT!CreateInvitation(s, 1)
             \/ \E k \in RedeemKey, a \in Account \cup {None} : PT!RedeemInvitation(s, k, a, 1)
             \/ PT!UpdateMemberProfile(s)
      PROVE  VersionInv'
  BY <1>5, CountedUp DEF PT!CreateInvitation, PT!RedeemInvitation, PT!UpdateMemberProfile,
                         PT!BumpSync
<1>6. ASSUME NEW v \in PT!Viewer, PT!Poll(v) PROVE VersionInv'
  BY <1>6, PollKeepsVersions
<1>7. CASE PT!Tick \/ UNCHANGED PT!parentVars
  BY <1>7, NothingShown DEF PT!Tick, PT!parentVars
<1> QED  BY <1>1, <1>2, <1>3, <1>4, <1>5, <1>6, <1>7 DEF PT!Next

(***************************************************************************)
(* A client that holds the current version holds the current view: the     *)
(* expected version of an edit stands for everything its author saw.       *)
(***************************************************************************)
THEOREM CurrentVersionsShowAll == PT!Spec => []PT!SameVersionSameView
<1>1. VersionInv => PT!SameVersionSameView
  BY DEF VersionInv
<1> QED  BY VersionInit, VersionNext, <1>1, PTL DEF PT!Spec

-----------------------------------------------------------------------------
(* The links.                                                              *)

\* A child is linked to one date, and to none before the trip exists.
OneDateEach ==
    /\ sync \in Nat
    /\ \A d, e \in Day : days[d].child = days[e].child /\ d # e => days[d].child = None
    /\ sync = 0 => \A d \in Day : days[d].child = None

LinkInv == Rows /\ OneDateEach

LEMMA LinkInit == PT!Init => LinkInv
  BY RowsInit DEF PT!Init, LinkInv, OneDateEach

\* What a step does to the links.
LinksKept ==
    /\ OneDateEach'
    /\ \A d \in Day : days[d].child # None => days'[d].child = days[d].child

LEMMA CreateKeepsLinks == ASSUME LinkInv, PT!Create PROVE LinksKept
  BY DEF PT!Create, LinkInv, Rows, PT!Day1, OneDateEach, LinksKept

LEMMA LinkKeepsLinks ==
    ASSUME LinkInv, NEW d \in Day, NEW c \in Child, PT!Link(d, c)
    PROVE  LinksKept
<1>1. \A e \in Day : days'[e].child = IF e = d THEN c ELSE days[e].child
  BY DEF LinkInv, Rows, PT!Day1, PT!Link
<1>2. days[d].child = None /\ \A e \in Day : days[e].child # c
  BY DEF PT!Link
<1>3. sync' \in Nat /\ sync' # 0
  BY DEF PT!Link, PT!BumpSync, LinkInv, OneDateEach
<1> QED  BY <1>1, <1>2, <1>3 DEF LinkInv, OneDateEach, LinksKept

LEMMA BudgetKeepsLinks ==
    ASSUME LinkInv, NEW d \in Day, NEW b \in Budgets, PT!SetBudget(d, b)
    PROVE  LinksKept
<1>1. \A e \in Day : days'[e].child = days[e].child
  BY DEF LinkInv, Rows, PT!Day1, PT!SetBudget
<1>2. sync' \in {sync, sync + 1}
  BY DEF PT!SetBudget, PT!BumpSync
<1> QED  BY <1>1, <1>2 DEF LinkInv, OneDateEach, LinksKept

LEMMA LinkNext == LinkInv /\ [PT!Next]_(PT!parentVars) => LinkInv' /\ LinksKept
<1> SUFFICES ASSUME LinkInv, [PT!Next]_(PT!parentVars) PROVE LinksKept
  BY RowsNext DEF LinkInv, LinksKept
<1>1. CASE PT!Create
  BY <1>1, CreateKeepsLinks
<1>2. ASSUME NEW w \in Thread, PT!Write(w) PROVE LinksKept
  <2>1. request[w].ask \in PT!Requests
    BY <1>2 DEF PT!Write, LinkInv, Rows, Requested
  <2>2. CASE request[w].ask.kind = "LINK"
    BY <1>2, <2>1, <2>2, LinkKeepsLinks DEF PT!Write, PT!Requests
  <2>3. CASE request[w].ask.kind # "LINK"
    BY <1>2, <2>1, <2>3, BudgetKeepsLinks DEF PT!Write, PT!Requests
  <2> QED  BY <2>2, <2>3
<1>3. CASE UNCHANGED days /\ sync' \in {sync, sync + 1}
  BY <1>3 DEF LinkInv, OneDateEach, LinksKept
<1> QED
  BY <1>1, <1>2, <1>3
  DEF PT!Next, PT!ReviseChild, PT!ReadDays, PT!CheckChild, PT!Refused, PT!CreateInvitation,
      PT!RedeemInvitation,
      PT!UpdateMemberProfile, PT!BumpSync, PT!Poll, PT!Tick, PT!parentVars

(***************************************************************************)
(* A linked date keeps its child, and no child gets a second date, however *)
(* late the thread that read the date comes to write it.                   *)
(***************************************************************************)
THEOREM LinksStay == PT!Spec => PT!LinksAreFinal
<1>1. LinkInv /\ LinksKept =>
         /\ \A d \in Day : days[d].child # None => days'[d].child = days[d].child
         /\ \A d, e \in Day : days'[d].child = days'[e].child /\ d # e => days'[d].child = None
  BY DEF LinksKept, OneDateEach
<1> QED  BY LinkInit, LinkNext, <1>1, PTL DEF PT!Spec, PT!LinksAreFinal

-----------------------------------------------------------------------------
(* The races.                                                              *)

\* A request that was checked passed on what it had read.
Checked(w) ==
    request[w] # None /\ request[w].checked =>
        LET q == request[w]
        IN  IF q.ask.kind = "LINK" THEN PT!MayLink(q, q.trip)
            ELSE PT!ChildOf(q) # None => PT!MaySetBudget(q, q.trip)

RaceInv ==
    /\ Rows
    /\ childTrip \in [Child -> ChildTrip]
    /\ \A w \in Thread : Checked(w)

LEMMA RaceInit == PT!Init => RaceInv
  BY RowsInit DEF PT!Init, RaceInv, Checked

LEMMA RaceNext == RaceInv /\ [PT!Next]_(PT!parentVars) => RaceInv'
<1> SUFFICES ASSUME RaceInv, [PT!Next]_(PT!parentVars) PROVE RaceInv'
  OBVIOUS
<1>1. Rows'
  BY RowsNext DEF RaceInv
<1>2. childTrip' \in [Child -> ChildTrip]
  BY DEF RaceInv, PT!Next, PT!Create, PT!ReviseChild, PT!ReadDays, PT!CheckChild, PT!Write,
         PT!Refused,
         PT!CreateInvitation, PT!RedeemInvitation, PT!UpdateMemberProfile, PT!Poll, PT!Tick,
         PT!parentVars
<1>3. ASSUME NEW u \in Thread PROVE Checked(u)'
  <2>1. ASSUME NEW w \in Thread, NEW r \in PT!Requests, PT!ReadDays(w, r) PROVE Checked(u)'
    <3>1. CASE u = w
      BY <2>1, <3>1 DEF PT!ReadDays, RaceInv, Rows, Checked, PT!ChildOf, PT!Requests
    <3>2. CASE u # w
      BY <2>1, <3>2 DEF PT!ReadDays, RaceInv, Rows, Checked, PT!ChildOf, PT!MayLink, PT!MaySetBudget
    <3> QED  BY <3>1, <3>2
  <2>2. ASSUME NEW w \in Thread, PT!CheckChild(w) PROVE Checked(u)'
    <3>1. CASE u = w
      <4> DEFINE q == request[w]
                 trip == childTrip[PT!ChildOf(q)]
      <4>1. /\ q = [ask |-> q.ask, row |-> q.row, trip |-> q.trip, checked |-> q.checked]
            /\ q.ask \in PT!Requests
        BY <2>2 DEF PT!CheckChild, RaceInv, Rows, Requested
      <4>2. \/ request'[w] = None
            \/ /\ request'[w] = [q EXCEPT !.checked = TRUE, !.trip = trip]
               /\ \/ q.ask.kind = "LINK" /\ PT!MayLink(q, trip)
                  \/ q.ask.kind = "BUDGET" /\ PT!MaySetBudget(q, trip)
        BY <2>2 DEF PT!CheckChild, RaceInv, Rows
      <4> QED  BY <3>1, <4>1, <4>2 DEF Checked, PT!MayLink, PT!MaySetBudget, PT!ChildOf
    <3>2. CASE u # w
      BY <2>2, <3>2 DEF PT!CheckChild, RaceInv, Rows, Checked, PT!ChildOf, PT!MayLink,
                        PT!MaySetBudget
    <3> QED  BY <3>1, <3>2
  <2>3. ASSUME NEW w \in Thread, request' = [request EXCEPT ![w] = None] PROVE Checked(u)'
    BY <2>3 DEF RaceInv, Rows, Checked, PT!ChildOf, PT!MayLink, PT!MaySetBudget
  <2>4. CASE UNCHANGED request
    BY <2>4 DEF RaceInv, Checked, PT!ChildOf, PT!MayLink, PT!MaySetBudget
  <2> QED
    BY <2>1, <2>2, <2>3, <2>4
    DEF PT!Next, PT!Create, PT!ReviseChild, PT!Write, PT!Refused, PT!CreateInvitation,
        PT!RedeemInvitation,
        PT!UpdateMemberProfile, PT!Poll, PT!Tick, PT!parentVars
<1> QED  BY <1>1, <1>2, <1>3 DEF RaceInv

\* A write of what is still so leaves its date in step.
LEMMA UpToDateLinkFits ==
    ASSUME RaceInv, NEW w \in Thread, PT!Write(w), PT!UpToDate(request[w]),
           request[w].ask.kind = "LINK", NEW d \in Day, request[w].ask.day = d
    PROVE  ~PT!Drifts(d)'
<1> DEFINE q == request[w]
           c == q.ask.child
<1>1. c \in Child /\ PT!MayLink(q, q.trip)
  BY DEF PT!Write, RaceInv, Rows, Requested, PT!Requests, Checked
<1>2. days'[d].child = c /\ days'[d].budget = days[d].budget /\ UNCHANGED childTrip
  BY <1>1 DEF PT!Write, PT!Link, RaceInv, Rows, PT!Day1
<1>3. c # None => q.trip = childTrip[c] /\ q.row = days[d]
  BY DEF PT!UpToDate, PT!ChildOf
<1>4. days[d].budget \in Nat
  <2>1. days[d].budget \in Budgets \/ days[d].budget = 0
    BY DEF RaceInv, Rows, PT!Day1
  <2>2. \A b \in Budgets : b \in Nat
    BY AmountsAreNumbers, Zenon
  <2> QED  BY <2>1, <2>2
<1>5. childTrip[c].budget \in Nat \cup {None}
  BY <1>1, AmountsAreNumbers DEF RaceInv
<1> QED  BY <1>1, <1>2, <1>3, <1>4, <1>5 DEF PT!Drifts, PT!MayLink

LEMMA UpToDateBudgetFits ==
    ASSUME RaceInv, NEW w \in Thread, PT!Write(w), PT!UpToDate(request[w]),
           request[w].ask.kind # "LINK", NEW d \in Day, request[w].ask.day = d, ~PT!Drifts(d)
    PROVE  ~PT!Drifts(d)'
<1> DEFINE q == request[w]
           c == days[d].child
<1>1. /\ q.ask.budget \in Nat
      /\ PT!ChildOf(q) # None => PT!MaySetBudget(q, q.trip)
  BY AmountsAreNumbers DEF PT!Write, RaceInv, Rows, Requested, PT!Requests, Checked
<1>2. days'[d].child = c /\ days'[d].budget = q.ask.budget /\ UNCHANGED childTrip
  BY <1>1 DEF PT!Write, PT!SetBudget, RaceInv, Rows, PT!Day1
<1>3. PT!ChildOf(q) = c /\ (c # None => q.trip = childTrip[c])
  BY DEF PT!UpToDate, PT!ChildOf
<1>4. c # None => childTrip[c].budget \in Nat \cup {None}
  BY AmountsAreNumbers DEF RaceInv, Rows, PT!Day1
<1> QED  BY <1>1, <1>2, <1>3, <1>4 DEF PT!Drifts, PT!MaySetBudget

RaceStep ==
    \A d \in Day :
        PT!Drifts(d)' /\ ~PT!Drifts(d) /\ UNCHANGED childTrip =>
            \E w \in Thread : /\ request[w] # None /\ request'[w] = None
                             /\ request[w].ask.day = d
                             /\ ~PT!UpToDate(request[w])

LEMMA DriftsInARace == RaceInv /\ [PT!Next]_(PT!parentVars) => RaceStep
<1> SUFFICES ASSUME RaceInv, [PT!Next]_(PT!parentVars), NEW d \in Day,
                    PT!Drifts(d)', ~PT!Drifts(d), UNCHANGED childTrip
             PROVE  \E w \in Thread : /\ request[w] # None /\ request'[w] = None
                                     /\ request[w].ask.day = d
                                     /\ ~PT!UpToDate(request[w])
  BY DEF RaceStep
<1>1. days' # days
  BY DEF PT!Drifts
<1>2. CASE PT!Create
  BY <1>2 DEF PT!Create, PT!Drifts
<1>3. ASSUME NEW w \in Thread, PT!Write(w)
      PROVE  /\ request[w] # None /\ request'[w] = None
             /\ request[w].ask.day = d
             /\ ~PT!UpToDate(request[w])
  <2>1. request[w] # None /\ request'[w] = None
    BY <1>3 DEF PT!Write, RaceInv, Rows
  <2>2. request[w].ask.day = d
    BY <1>3 DEF PT!Write, PT!Link, PT!SetBudget, RaceInv, Rows, PT!Day1, PT!Drifts
  <2> QED  BY <1>3, <2>1, <2>2, UpToDateLinkFits, UpToDateBudgetFits
<1> QED
  BY <1>1, <1>2, <1>3
  DEF PT!Next, PT!ReviseChild, PT!ReadDays, PT!CheckChild, PT!Refused, PT!CreateInvitation,
      PT!RedeemInvitation,
      PT!UpdateMemberProfile, PT!Poll, PT!Tick, PT!parentVars

(***************************************************************************)
(* A request of the parent trip puts a date out of step with its child     *)
(* only in a race: the date or the child has changed since the thread      *)
(* looked at it.                                                           *)
(***************************************************************************)
THEOREM DriftsAreRaces == PT!Spec => PT!DriftComesFromARace
<1>1. RaceInv /\ [PT!Next]_(PT!parentVars) => RaceStep
  BY DriftsInARace
<1> QED  BY RaceInit, RaceNext, <1>1, PTL DEF PT!Spec, PT!DriftComesFromARace, RaceStep

-----------------------------------------------------------------------------
(* The types of the members' rows.  A profile has been edited no more      *)
(* often than the version was counted up.                                  *)

SeatRow == [status : {"NONE", "INVITED", "MEMBER_ACTIVE"}, expires : 0..(MaxTime + 1),
            account : Account \cup {None}, profile : 0..MaxSync, key : RedeemKey \cup {None}]

\* The invitation names the key that its session was made with.
SessionOf(s) ==
    IF seats[s].status = "MEMBER_ACTIVE"
    THEN sessions[s] # None /\ sessions[s].key = seats[s].key
    ELSE sessions[s] = None /\ seats[s].key = None

Seats ==
    /\ sync \in 0..MaxSync /\ parentTime \in 0..MaxTime
    /\ seats \in [Seat -> SeatRow] /\ sessions = [s \in Seat |-> sessions[s]]
    /\ \A s \in Seat : seats[s].profile <= sync /\ SessionOf(s)

LEMMA SeatsInit == PT!Init => Seats
<1> SUFFICES ASSUME PT!Init PROVE Seats
  OBVIOUS
<1>1. 0 \in 0..MaxSync /\ 0 \in 0..MaxTime /\ 0 \in 0..(MaxTime + 1)
  BY BoundsAreNumbers
<1>2. PT!NoSeat \in SeatRow
  BY <1>1 DEF PT!NoSeat, SeatRow
<1> QED  BY <1>1, <1>2 DEF PT!Init, PT!NoSeat, Seats, SessionOf

\* A step that gives one seat another row, and perhaps a session.
LEMMA SeatStep ==
    ASSUME Seats, sync < MaxSync, sync' = sync + 1, UNCHANGED parentTime, NEW s \in Seat,
           NEW row \in SeatRow, NEW pass, row.profile <= sync + 1,
           seats' = [seats EXCEPT ![s] = row], sessions' = [sessions EXCEPT ![s] = pass],
           IF row.status = "MEMBER_ACTIVE" THEN pass # None /\ pass.key = row.key
           ELSE pass = None /\ row.key = None
    PROVE  Seats'
<1>1. sync' \in 0..MaxSync /\ parentTime' \in 0..MaxTime
  BY BoundsAreNumbers DEF Seats
<1>2. /\ seats' \in [Seat -> SeatRow] /\ sessions' = [u \in Seat |-> sessions'[u]]
      /\ seats'[s] = row /\ sessions'[s] = pass
      /\ \A u \in Seat \ {s} : seats'[u] = seats[u] /\ sessions'[u] = sessions[u]
  BY DEF Seats
<1>3. \A u \in Seat : seats[u].profile \in Nat /\ seats[u].profile <= sync
  BY BoundsAreNumbers DEF Seats, SeatRow
<1>4. sync \in Nat
  BY BoundsAreNumbers DEF Seats
<1>5. \A u \in Seat : seats'[u].profile <= sync'
  BY <1>2, <1>3, <1>4
<1>6. \A u \in Seat : SessionOf(u)'
  BY <1>2 DEF Seats, SessionOf
<1> QED  BY <1>1, <1>2, <1>5, <1>6 DEF Seats

LEMMA SeatsNext == Seats /\ [PT!Next]_(PT!parentVars) => Seats'
<1> SUFFICES ASSUME Seats, [PT!Next]_(PT!parentVars) PROVE Seats'
  OBVIOUS
<1>0. ASSUME NEW s \in Seat
      PROVE  /\ seats[s] = [status |-> seats[s].status, expires |-> seats[s].expires,
                            account |-> seats[s].account, profile |-> seats[s].profile,
                            key |-> seats[s].key]
             /\ seats[s] \in SeatRow /\ seats[s].profile <= sync /\ seats[s].profile \in Nat
             /\ SessionOf(s)
  BY BoundsAreNumbers DEF Seats, SeatRow
<1>1. ASSUME NEW s \in Seat, PT!CreateInvitation(s, 1) PROVE Seats'
  <2> DEFINE row == [status |-> "INVITED", expires |-> parentTime + 1, account |-> None,
                     profile |-> 1, key |-> None]
  <2>1. seats' = [seats EXCEPT ![s] = row]
    <3>1. PICK new : /\ new = [PT!NoSeat EXCEPT !.status = "INVITED", !.expires = parentTime + 1,
                                              !.profile = 1]
                     /\ seats' = [seats EXCEPT ![s] = new]
      BY <1>1 DEF PT!CreateInvitation
    <3>2. new = row
      BY <3>1 DEF PT!NoSeat
    <3> QED  BY <3>1, <3>2
  <2>2. parentTime + 1 \in 0..(MaxTime + 1) /\ 1 \in 0..MaxSync /\ 1 <= sync + 1
    BY BoundsAreNumbers DEF Seats
  <2>3. row \in SeatRow
    BY <2>2 DEF SeatRow
  <2>4. /\ sessions[s] = None /\ sessions' = sessions
        /\ sync < MaxSync /\ sync' = sync + 1 /\ UNCHANGED parentTime
    BY <1>0, <1>1 DEF PT!CreateInvitation, PT!BumpSync, SessionOf
  <2>5. sessions' = [sessions EXCEPT ![s] = None]
    BY <2>4 DEF Seats
  <2> HIDE DEF row
  <2> QED  BY <2>1, <2>2, <2>3, <2>4, <2>5, SeatStep DEF row
<1>2. ASSUME NEW s \in Seat, NEW k \in RedeemKey, NEW a \in Account \cup {None},
             PT!RedeemInvitation(s, k, a, 1)
      PROVE  Seats'
  <2> DEFINE row == [status |-> "MEMBER_ACTIVE", expires |-> seats[s].expires, account |-> a,
                     profile |-> seats[s].profile, key |-> k]
             pass == [key |-> k, expires |-> parentTime + 1]
  <2>1. /\ seats' = [seats EXCEPT ![s].status = "MEMBER_ACTIVE", ![s].account = a, ![s].key = k]
        /\ sessions' = [sessions EXCEPT ![s] = pass]
        /\ sync < MaxSync /\ sync' = sync + 1 /\ UNCHANGED parentTime
    BY <1>2 DEF PT!RedeemInvitation, PT!BumpSync
  <2>2. row \in SeatRow /\ row.profile <= sync + 1
    BY <1>0, BoundsAreNumbers DEF SeatRow, Seats
  <2>3. seats' = [seats EXCEPT ![s] = row]
    <3>1. /\ seats[s] = [status |-> seats[s].status, expires |-> seats[s].expires,
                         account |-> seats[s].account, profile |-> seats[s].profile,
                         key |-> seats[s].key]
          /\ s \in DOMAIN seats
      BY <1>0 DEF Seats
    <3>2. seats'[s] = row
      BY <2>1, <3>1
    <3>3. seats' = [seats EXCEPT ![s] = seats'[s]]
      BY <2>1, <3>1
    <3> QED  BY <3>2, <3>3
  <2>4. pass # None /\ pass.key = row.key /\ row.status = "MEMBER_ACTIVE"
    <3>1. parentTime + 1 \in Nat
      BY BoundsAreNumbers DEF Seats
    <3>2. pass \in [key : RedeemKey, expires : Nat]
      BY <3>1
    <3> QED  BY <3>2, NoneIsNoRow
  <2> HIDE DEF row, pass
  <2> QED  BY <2>1, <2>2, <2>3, <2>4, SeatStep
<1>3. ASSUME NEW s \in Seat, PT!UpdateMemberProfile(s) PROVE Seats'
  <2> DEFINE row == [status |-> seats[s].status, expires |-> seats[s].expires,
                     account |-> seats[s].account, profile |-> seats[s].profile + 1,
                     key |-> seats[s].key]
  <2>1. /\ seats' = [seats EXCEPT ![s].profile = seats[s].profile + 1]
        /\ sessions' = sessions
        /\ sync < MaxSync /\ sync' = sync + 1 /\ UNCHANGED parentTime
        /\ sessions[s] # None
    BY <1>3 DEF PT!UpdateMemberProfile, PT!BumpSync, PT!Authenticated
  <2>2. seats[s].profile + 1 \in 0..MaxSync /\ seats[s].profile + 1 <= sync + 1
    BY <1>0, <2>1, BoundsAreNumbers DEF Seats
  <2>3. row \in SeatRow
    BY <1>0, <2>2 DEF SeatRow
  <2>4. seats' = [seats EXCEPT ![s] = row]
    <3>1. /\ seats[s] = [status |-> seats[s].status, expires |-> seats[s].expires,
                         account |-> seats[s].account, profile |-> seats[s].profile,
                         key |-> seats[s].key]
          /\ s \in DOMAIN seats
      BY <1>0 DEF Seats
    <3>2. seats'[s] = row
      BY <2>1, <3>1
    <3>3. seats' = [seats EXCEPT ![s] = seats'[s]]
      BY <2>1, <3>1
    <3> QED  BY <3>2, <3>3
  <2>5. IF row.status = "MEMBER_ACTIVE" THEN sessions[s] # None /\ sessions[s].key = row.key
        ELSE sessions[s] = None /\ row.key = None
    BY <1>0, <2>1 DEF SessionOf
  <2>6. row.profile <= sync + 1 /\ sessions' = [sessions EXCEPT ![s] = sessions[s]]
    BY <2>1, <2>2 DEF Seats
  <2> HIDE DEF row
  <2> QED  BY <2>1, <2>3, <2>4, <2>5, <2>6, SeatStep
<1>4. CASE /\ UNCHANGED <<seats, sessions>>
           /\ sync' \in 0..MaxSync /\ sync' >= sync /\ parentTime' \in 0..MaxTime
  <2>1. \A s \in Seat : seats[s].profile <= sync'
    <3>1. sync \in Nat /\ sync' \in Nat /\ sync <= sync'
      BY <1>4, BoundsAreNumbers DEF Seats
    <3>2. ASSUME NEW s \in Seat PROVE seats[s].profile <= sync'
      <4>1. seats[s].profile \in Nat /\ seats[s].profile <= sync
        BY <1>0
      <4> QED  BY <3>1, <4>1
    <3> QED  BY <1>4, <3>2
  <2> QED  BY <1>4, <2>1 DEF Seats, SessionOf
<1>5. UNCHANGED sync => sync' \in 0..MaxSync /\ sync' >= sync
  BY BoundsAreNumbers DEF Seats
<1>6. PT!BumpSync => sync' \in 0..MaxSync /\ sync' >= sync
  BY BoundsAreNumbers DEF Seats, PT!BumpSync
<1>7. sync = 0 /\ sync' = 1 => sync' \in 0..MaxSync /\ sync' >= sync
  BY BoundsAreNumbers
<1>8. CASE PT!Tick
  <2>1. parentTime' \in 0..MaxTime
    BY <1>8, BoundsAreNumbers DEF PT!Tick, Seats
  <2> QED  BY <1>4, <1>5, <1>8, <2>1 DEF PT!Tick
<1>9. CASE UNCHANGED <<seats, sessions, parentTime>>
           /\ (UNCHANGED sync \/ PT!BumpSync \/ (sync = 0 /\ sync' = 1))
  BY <1>4, <1>5, <1>6, <1>7, <1>9 DEF Seats
<1>10. ASSUME NEW w \in Thread, PT!Write(w) PROVE Seats'
  BY <1>9, <1>10 DEF PT!Write, PT!Link, PT!SetBudget
<1> QED
  BY <1>1, <1>2, <1>3, <1>8, <1>9, <1>10
  DEF PT!Next, PT!Create, PT!ReviseChild, PT!ReadDays, PT!CheckChild, PT!Refused, PT!Poll,
      PT!parentVars

LEMMA ParentTypes == PT!Spec => []PT!TypeOK
<1>1. VersionInv /\ RaceInv /\ Seats => PT!TypeOK
  BY DEF VersionInv, Versions, RaceInv, Rows, Seats, SessionOf, SeatRow, PT!TypeOK
<1> QED  BY VersionInit, VersionNext, RaceInit, RaceNext, SeatsInit, SeatsNext, <1>1,
            PTL DEF PT!Spec

-----------------------------------------------------------------------------
(* The places of siblings.  A second version follows a first that is in    *)
(* force, and between a check and its write nothing else is written than   *)
(* links.                                                                  *)

\* What the check of a request has found.
Found(q) ==
    LET c == q.child
    IN  /\ c \in Child /\ q.places \subseteq Places /\ q.links \subseteq linked
        /\ q.links = linked => q.places \cap SP!Memory(c) = {}
        /\ q.write \in {"V1", "CONFIRM", "V2", "ACCEPT"}
        /\ q.write = "V1" => v1[c].status = "NONE"
        /\ q.write = "CONFIRM" => v1[c] = [status |-> "PROPOSED", places |-> q.places]
        /\ q.write = "V2" => v1[c].status = "CURRENT" /\ v2[c].status = "NONE"
        /\ q.write = "ACCEPT" =>
              v1[c].status = "CURRENT" /\ v2[c] = [status |-> "PROPOSED", places |-> q.places]

\* What the two plans of a child may be.
InTurn(c) ==
    /\ v1[c].status \in {"NONE", "PROPOSED"} => v2[c].status = "NONE"
    /\ v2[c].status = "PROPOSED" => v1[c].status = "CURRENT"

PlaceInv ==
    /\ SP!TypeOK
    /\ \A c \in Child : InTurn(c)
    /\ checked # None => Found(checked)

LEMMA PlaceInit == SP!Init => PlaceInv
  BY DEF SP!Init, SP!NoPlan, SP!TypeOK, SP!PlanRow, PlaceInv, InTurn

LEMMA CheckStep ==
    ASSUME PlaceInv, NEW c \in Child, NEW p \in SUBSET Places, NEW write, NEW stored,
           SP!Check(c, p, write, stored),
           \/ write = "V1" /\ v1[c].status = "NONE"
           \/ write = "CONFIRM" /\ v1[c] = [status |-> "PROPOSED", places |-> p]
           \/ write = "V2" /\ v1[c].status = "CURRENT" /\ v2[c].status = "NONE"
           \/ write = "ACCEPT" /\ v2[c] = [status |-> "PROPOSED", places |-> p]
    PROVE  PlaceInv'
<1>1. /\ checked' = [child |-> c, places |-> p, write |-> write, links |-> linked]
      /\ UNCHANGED <<linked, v1, v2>> /\ p \cap SP!Memory(c) = {}
  BY DEF SP!Check, SP!Unique
<1>2. SP!TypeOK' /\ \A d \in Child : InTurn(d)'
  BY <1>1 DEF PlaceInv, SP!TypeOK, InTurn
<1>3. SP!Memory(c)' = SP!Memory(c)
  BY <1>1 DEF SP!Memory, SP!Remembered, SP!CurrentPlaces
<1>4. PICK q : q = [child |-> c, places |-> p, write |-> write, links |-> linked]
  OBVIOUS
<1>5. Found(q)'
  <2>1. v1'[c] = v1[c] /\ v2'[c] = v2[c] /\ linked' = linked /\ InTurn(c)
    BY <1>1 DEF PlaceInv
  <2>2. q.child = c /\ q.places = p /\ q.write = write /\ q.links = linked
    BY <1>4
  <2>3. q.places \cap SP!Memory(q.child)' = {}
    BY <1>1, <1>3, <2>2
  <2> QED  BY <2>1, <2>2, <2>3 DEF Found, InTurn
<1>6. Found(checked)'
  BY <1>1, <1>4, <1>5
<1> QED  BY <1>2, <1>6 DEF PlaceInv

\* What the write does to the plans of the child of the request.
Moves(c, p) ==
    \/ /\ v1[c].status = "NONE" /\ v1'[c] = [status |-> "PROPOSED", places |-> p]
       /\ v2'[c] = v2[c]
    \/ /\ v1[c] = [status |-> "PROPOSED", places |-> p]
       /\ v1'[c] = [status |-> "CURRENT", places |-> p]
       /\ v2'[c] = v2[c]
    \/ /\ v1[c].status = "CURRENT" /\ v2[c].status = "NONE" /\ v1'[c] = v1[c]
       /\ v2'[c] = [status |-> "PROPOSED", places |-> p]
    \/ /\ v1[c].status = "CURRENT" /\ v2[c] = [status |-> "PROPOSED", places |-> p]
       /\ v1'[c] = [status |-> "SUPERSEDED", places |-> v1[c].places]
       /\ v2'[c] = [status |-> "CURRENT", places |-> p]

LEMMA Committed ==
    ASSUME PlaceInv, SP!Commit, NEW c, NEW p, c = checked.child, p = checked.places
    PROVE  /\ c \in Child /\ p \subseteq Places /\ Moves(c, p)
           /\ v1' = [v1 EXCEPT ![c] = v1'[c]] /\ v2' = [v2 EXCEPT ![c] = v2'[c]]
<1>1. c \in Child /\ p \subseteq Places /\ Found(checked)
  BY DEF SP!Commit, PlaceInv, Found
<1>2. /\ c \in DOMAIN v1 /\ v1[c] = [status |-> v1[c].status, places |-> v1[c].places]
      /\ c \in DOMAIN v2 /\ v2[c] = [status |-> v2[c].status, places |-> v2[c].places]
      /\ v1 = [v1 EXCEPT ![c] = v1[c]] /\ v2 = [v2 EXCEPT ![c] = v2[c]]
  BY <1>1 DEF PlaceInv, SP!TypeOK, SP!PlanRow
<1>3. CASE checked.write = "V1"
  <2>1. /\ v1' = [v1 EXCEPT ![c] = [status |-> "PROPOSED", places |-> p]] /\ v2' = v2
        /\ v1[c].status = "NONE"
    BY <1>1, <1>3 DEF SP!Commit, Found
  <2> QED  BY <1>1, <1>2, <2>1 DEF Moves
<1>4. CASE checked.write = "CONFIRM"
  <2>1. /\ v1' = [v1 EXCEPT ![c].status = "CURRENT"] /\ v2' = v2
        /\ v1[c] = [status |-> "PROPOSED", places |-> p]
    BY <1>1, <1>4 DEF SP!Commit, Found
  <2>2. v1'[c] = [status |-> "CURRENT", places |-> p] /\ v1' = [v1 EXCEPT ![c] = v1'[c]]
    BY <1>2, <2>1
  <2> QED  BY <1>1, <1>2, <2>1, <2>2 DEF Moves
<1>5. CASE checked.write = "V2"
  <2>1. /\ v2' = [v2 EXCEPT ![c] = [status |-> "PROPOSED", places |-> p]] /\ v1' = v1
        /\ v1[c].status = "CURRENT" /\ v2[c].status = "NONE"
    BY <1>1, <1>5 DEF SP!Commit, Found
  <2> QED  BY <1>1, <1>2, <2>1 DEF Moves
<1>6. CASE checked.write = "ACCEPT"
  <2>1. /\ v1' = [v1 EXCEPT ![c].status = "SUPERSEDED"]
        /\ v2' = [v2 EXCEPT ![c].status = "CURRENT"]
        /\ v1[c].status = "CURRENT" /\ v2[c] = [status |-> "PROPOSED", places |-> p]
    BY <1>1, <1>6 DEF SP!Commit, Found
  <2>2. v2'[c] = [status |-> "CURRENT", places |-> p] /\ v2' = [v2 EXCEPT ![c] = v2'[c]]
    BY <1>2, <2>1
  <2>3. /\ v1'[c] = [status |-> "SUPERSEDED", places |-> v1[c].places]
        /\ v1' = [v1 EXCEPT ![c] = v1'[c]]
    BY <1>2, <2>1
  <2> QED  BY <1>1, <2>1, <2>2, <2>3 DEF Moves
<1> QED  BY <1>1, <1>3, <1>4, <1>5, <1>6 DEF Found

LEMMA CommitStep == ASSUME PlaceInv, SP!Commit PROVE PlaceInv'
<1>1. PICK c, p : c = checked.child /\ p = checked.places
  OBVIOUS
<1>2. /\ c \in Child /\ p \subseteq Places /\ checked' = None /\ UNCHANGED linked
      /\ v1 \in [Child -> SP!PlanRow] /\ v2 \in [Child -> SP!PlanRow] /\ linked \subseteq Child
      /\ InTurn(c) /\ Moves(c, p)
  BY <1>1, Committed DEF SP!Commit, PlaceInv, SP!TypeOK
<1>3. v1' = [v1 EXCEPT ![c] = v1'[c]] /\ v2' = [v2 EXCEPT ![c] = v2'[c]]
  BY <1>1, Committed
<1>4. v1'[c] \in SP!PlanRow /\ v2'[c] \in SP!PlanRow
  BY <1>2 DEF Moves, SP!PlanRow
<1>5. InTurn(c)'
  BY <1>2 DEF Moves, InTurn
<1>6. \A d \in Child \ {c} : v1'[d] = v1[d] /\ v2'[d] = v2[d]
  BY <1>2, <1>3
<1>7. SP!TypeOK'
  BY <1>2, <1>3, <1>4 DEF SP!TypeOK
<1>8. ASSUME NEW d \in Child PROVE InTurn(d)'
  <2>1. CASE d = c
    BY <1>5, <2>1
  <2>2. CASE d # c
    BY <1>6, <2>2 DEF InTurn, PlaceInv
  <2> QED  BY <2>1, <2>2
<1> QED  BY <1>2, <1>7, <1>8 DEF PlaceInv

LEMMA PlaceNext == PlaceInv /\ [SP!Next]_(SP!placeVars) => PlaceInv'
<1> SUFFICES ASSUME PlaceInv, [SP!Next]_(SP!placeVars) PROVE PlaceInv'
  OBVIOUS
<1>1. ASSUME NEW c \in Child, SP!Link(c) PROVE PlaceInv'
  <2>1. SP!TypeOK' /\ \A d \in Child : InTurn(d)'
    BY <1>1 DEF SP!Link, PlaceInv, SP!TypeOK, InTurn
  <2>2. checked # None => checked.links # linked'
    BY <1>1 DEF SP!Link, PlaceInv, Found
  <2>3. checked # None => Found(checked)'
    BY <1>1, <2>2 DEF SP!Link, PlaceInv, Found
  <2> QED  BY <1>1, <2>1, <2>3 DEF SP!Link, PlaceInv
<1>2. ASSUME NEW c \in Child, NEW p \in Plans, SP!GenerateV1(c, p) \/ SP!GenerateV2(c, p)
      PROVE  PlaceInv'
  <2>1. p \in SUBSET Places
    BY PlansVisitPlaces
  <2> QED  BY <1>2, <2>1, CheckStep DEF SP!GenerateV1, SP!GenerateV2
<1>3. ASSUME NEW c \in Child, SP!ConfirmV1(c) \/ SP!AcceptV2(c) PROVE PlaceInv'
  <2>1. /\ v1[c] = [status |-> v1[c].status, places |-> v1[c].places]
        /\ v2[c] = [status |-> v2[c].status, places |-> v2[c].places]
        /\ v1[c].places \in SUBSET Places /\ v2[c].places \in SUBSET Places
    BY DEF PlaceInv, SP!TypeOK, SP!PlanRow
  <2> QED  BY <1>3, <2>1, CheckStep DEF SP!ConfirmV1, SP!AcceptV2
<1>4. ASSUME NEW c \in Child, SP!RejectV2(c) PROVE PlaceInv'
  <2>1. v2' = [v2 EXCEPT ![c].status = "REJECTED"] /\ UNCHANGED <<linked, v1, checked>>
        /\ checked = None /\ v2[c].status = "PROPOSED"
    BY <1>4 DEF SP!RejectV2
  <2>2. v2' \in [Child -> SP!PlanRow]
    BY <2>1 DEF PlaceInv, SP!TypeOK, SP!PlanRow
  <2>3. \A d \in Child : v2'[d].status = IF d = c THEN "REJECTED" ELSE v2[d].status
    BY <2>1 DEF PlaceInv, SP!TypeOK, SP!PlanRow
  <2> QED  BY <2>1, <2>2, <2>3 DEF PlaceInv, SP!TypeOK, InTurn
<1>5. CASE SP!Commit
  BY <1>5, CommitStep
<1>6. CASE UNCHANGED SP!placeVars
  <2>1. UNCHANGED <<linked, v1, v2, checked>>
    BY <1>6 DEF SP!placeVars
  <2>2. checked # None => Found(checked)'
    BY <2>1 DEF PlaceInv, Found, SP!Memory, SP!Remembered, SP!CurrentPlaces
  <2> QED  BY <2>1, <2>2 DEF PlaceInv, SP!TypeOK, InTurn
<1> QED  BY <1>1, <1>2, <1>3, <1>4, <1>5, <1>6 DEF SP!Next

\* Without a link, and with a check that knew all links, nothing is shared.
Disjoint ==
    \A c, d \in Child :
        SP!Shares(c, d)' /\ ~SP!Shares(c, d) =>
            linked' # linked \/ (checked # None /\ checked.links # linked)

LEMMA SharingStep == PlaceInv /\ [SP!Next]_(SP!placeVars) => Disjoint
<1> SUFFICES ASSUME PlaceInv, [SP!Next]_(SP!placeVars), NEW a \in Child, NEW b \in Child,
                    SP!Shares(a, b)', ~SP!Shares(a, b), linked' = linked,
                    checked # None => checked.links = linked
             PROVE  FALSE
  BY DEF Disjoint
<1>0. a # b /\ a \in linked /\ b \in linked
  BY DEF SP!Shares
<1>1. SP!CurrentPlaces(a)' # SP!CurrentPlaces(a) \/ SP!CurrentPlaces(b)' # SP!CurrentPlaces(b)
  BY DEF SP!Shares
<1>2. ASSUME NEW c \in Child, SP!RejectV2(c) PROVE FALSE
  <2>1. v1' = v1 /\ v2[c].status = "PROPOSED"
        /\ \A d \in Child : IF d = c THEN v2'[d].status = "REJECTED" ELSE v2'[d] = v2[d]
    BY <1>2 DEF SP!RejectV2, PlaceInv, SP!TypeOK, SP!PlanRow
  <2>2. \A d \in Child : SP!CurrentPlaces(d)' = SP!CurrentPlaces(d)
    BY <2>1 DEF SP!CurrentPlaces
  <2> QED  BY <1>1, <2>2
<1>3. CASE SP!Commit
  <2>1. PICK c, p : c = checked.child /\ p = checked.places
    OBVIOUS
  <2>2. /\ c \in Child /\ Found(checked) /\ checked # None /\ linked \subseteq Child
        /\ v1 \in [Child -> SP!PlanRow] /\ v2 \in [Child -> SP!PlanRow]
        /\ InTurn(c) /\ Moves(c, p)
    BY <1>3, <2>1, Committed DEF SP!Commit, PlaceInv, SP!TypeOK
  <2>3. /\ v1' = [v1 EXCEPT ![c] = v1'[c]] /\ v2' = [v2 EXCEPT ![c] = v2'[c]]
    BY <1>3, <2>1, Committed
  <2>4. \A d \in Child \ {c} : SP!CurrentPlaces(d)' = SP!CurrentPlaces(d)
    BY <2>2, <2>3 DEF SP!CurrentPlaces
  <2>5. SP!CurrentPlaces(c)' \in {SP!CurrentPlaces(c), p}
    BY <2>2 DEF Moves, SP!CurrentPlaces, InTurn
  <2>6. \A d \in Child : SP!CurrentPlaces(d) \subseteq SP!Remembered(d)
    BY DEF SP!CurrentPlaces, SP!Remembered, PlaceInv, InTurn
  <2>7. c \in linked => \A d \in linked \ {c} : SP!Remembered(d) \cap p = {}
    BY <2>1, <2>2 DEF Found, SP!Memory
  <2>8. ASSUME NEW d \in linked \ {c}, c \in linked
        PROVE  SP!CurrentPlaces(d)' \cap SP!CurrentPlaces(c)' = {}
               \/ SP!CurrentPlaces(c)' = SP!CurrentPlaces(c)
    BY <2>2, <2>4, <2>5, <2>6, <2>7, <2>8
  <2>9. a = c \/ b = c
    BY <1>1, <2>4
  <2>10. CASE a = c
    BY <1>0, <1>1, <2>2, <2>4, <2>8, <2>10 DEF SP!Shares
  <2>11. CASE b = c
    BY <1>0, <1>1, <2>2, <2>4, <2>8, <2>11 DEF SP!Shares
  <2> QED  BY <2>9, <2>10, <2>11
<1>4. CASE UNCHANGED <<v1, v2>>
  BY <1>1, <1>4 DEF SP!CurrentPlaces
<1> QED
  BY <1>2, <1>3, <1>4
  DEF SP!Next, SP!Link, SP!GenerateV1, SP!ConfirmV1, SP!GenerateV2, SP!AcceptV2, SP!Check,
      SP!placeVars

(***************************************************************************)
(* Two days whose plans in force visit the same place got there by a link: *)
(* a decision on days that were linked all along never repeats a place     *)
(* (require_unique_candidate_places), for any number of days and places.   *)
(***************************************************************************)
THEOREM SharingIsByLinking == SP!Spec => SP!SharingComesFromLinking
<1> QED
  BY PlaceInit, PlaceNext, SharingStep, PTL DEF SP!Spec, SP!SharingComesFromLinking, Disjoint

-----------------------------------------------------------------------------
(* The inputs of a trip.  What is confirmed could only change with the     *)
(* flow, and the flow of a single trip admits single trips alone.          *)

FlowInv ==
    /\ DOMAIN flow = Trip /\ DOMAIN confirmed = Trip
    /\ \A t \in Trip : flow[t] = "LEGACY_SINGLE" => confirmed[t].mode = "SINGLE"

FlowsStay == \A t \in Trip : /\ flow[t] # None => flow'[t] = flow[t]
                             /\ confirmed[t] # None => confirmed'[t] = confirmed[t]

LEMMA NoneIsNoFlow == None \notin TI!Flow
  BY NoneIsNoRow DEF TI!Flow

\* A confirmation writes only what is not there yet.
LEMMA ConfirmKeeps ==
    ASSUME FlowInv, NEW t \in Trip, NEW row, NEW kind \in TI!Flow,
           kind = "LEGACY_SINGLE" => row.mode = "SINGLE",
           TI!ConfirmTrip(t, row, kind)
    PROVE  FlowInv' /\ FlowsStay
<1> USE NoneIsNoFlow
<1>1. /\ confirmed[t] \in {None, row} /\ confirmed' = [confirmed EXCEPT ![t] = row]
      /\ flow[t] \in {None, kind}
      /\ flow' = [flow EXCEPT ![t] = IF @ = None THEN kind ELSE @]
  BY DEF TI!ConfirmTrip, TI!MayConfirm, TI!MayRegister, TI!Register
<1>2. flow'[t] = kind /\ confirmed'[t] = row
  BY <1>1 DEF FlowInv
<1>3. \A u \in Trip \ {t} : flow'[u] = flow[u] /\ confirmed'[u] = confirmed[u]
  BY <1>1 DEF FlowInv
<1> QED  BY <1>1, <1>2, <1>3 DEF FlowInv, FlowsStay

LEMMA FlowStep ==
    ASSUME FlowInv, [TI!Next]_(TI!inputVars)
    PROVE  FlowInv' /\ FlowsStay
<1> USE NoneIsNoFlow
<1>1. ASSUME NEW t \in Trip, NEW row \in TI!Content, TI!ConfirmDraft(t, row)
      PROVE  FlowInv' /\ FlowsStay
  BY <1>1, ConfirmKeeps, "LEGACY_SINGLE" \in TI!Flow DEF TI!ConfirmDraft, TI!Flow
<1>2. ASSUME NEW t \in Trip, NEW row \in TI!Content, TI!AgreeOn(t, row)
      PROVE  FlowInv' /\ FlowsStay
  BY <1>2 DEF TI!AgreeOn, TI!MayRegister, TI!Register, TI!Flow, FlowInv, FlowsStay
<1>3. ASSUME NEW t \in Trip, TI!Materialize(t) PROVE FlowInv' /\ FlowsStay
  BY <1>3, ConfirmKeeps, "COLLABORATION_V2" \in TI!Flow DEF TI!Materialize, TI!Flow
<1>4. CASE TI!Restart
  BY <1>4 DEF TI!Restart, TI!BackfillConfirmedSingleFlows, TI!Unclassified, TI!IsLegacySingle,
              TI!Flow, FlowInv, FlowsStay
<1>5. CASE UNCHANGED <<flow, confirmed>>
  BY <1>5 DEF FlowInv, FlowsStay
<1> QED
  BY <1>1, <1>2, <1>3, <1>4, <1>5
  DEF TI!Next, TI!Request, TI!HandOver, TI!SaveConstraints, TI!ConfirmConstraints,
      TI!SaveTwoDay, TI!inputVars

(***************************************************************************)
(* A trip keeps its flow and its confirmed content, and the single flow    *)
(* owns only trips of one traveller, through any sequence of               *)
(* confirmations, agreements, projections and restarts (trip_flow_store.py,*)
(* workflow_store.py).  Rows of an older version need not be readable.     *)
(***************************************************************************)
THEOREM TripsKeepTheirFlow == TI!Spec => TI!OneFlowPerTrip
<1>1. TI!Init => FlowInv
  BY NoneIsNoFlow DEF TI!Init, TI!Flow, FlowInv
<1>2. FlowInv /\ [TI!Next]_(TI!inputVars) => FlowInv'
  BY FlowStep
<1>3. FlowInv /\ [TI!Next]_(TI!inputVars) =>
        [\A t \in Trip :
            /\ flow[t] # None => flow'[t] = flow[t]
            /\ confirmed[t] # None => confirmed'[t] = confirmed[t]
            /\ flow'[t] = "LEGACY_SINGLE" => confirmed'[t].mode = "SINGLE"]_(TI!inputVars)
  <2> SUFFICES ASSUME FlowInv, [TI!Next]_(TI!inputVars)
               PROVE  \A t \in Trip :
                         /\ flow[t] # None => flow'[t] = flow[t]
                         /\ confirmed[t] # None => confirmed'[t] = confirmed[t]
                         /\ flow'[t] = "LEGACY_SINGLE" => confirmed'[t].mode = "SINGLE"
    OBVIOUS
  <2>1. FlowInv' /\ FlowsStay
    BY FlowStep
  <2> QED  BY <2>1 DEF FlowInv, FlowsStay
<1> QED  BY <1>1, <1>2, <1>3, PTL DEF TI!Spec, TI!OneFlowPerTrip

\* A projection under way hands over a profile to a trip.
InputInv ==
    /\ TI!TypeOK
    /\ handing \in {None} \cup [trip : Trip, profile : Care, next : {"DRAFT", "CONFIRM"}]

CareRow == [status : {"NONE", "DRAFT", "CONFIRMED"}, profile : Care \cup {None}]

LEMMA SaveDraftTypes ==
    ASSUME TI!TypeOK, NEW t \in Trip, NEW p \in Care, TI!SaveDraft(t, p)
    PROVE  care' \in [Trip -> CareRow]
  BY DEF TI!TypeOK, TI!SaveDraft, CareRow

LEMMA ConfirmProfileTypes ==
    ASSUME TI!TypeOK, NEW t \in Trip, TI!ConfirmProfile(t)
    PROVE  care' \in [Trip -> CareRow]
  BY DEF TI!TypeOK, TI!ConfirmProfile, CareRow

LEMMA ConfirmTripTypes ==
    ASSUME TI!TypeOK, NEW t \in Trip, NEW row \in TI!Content, NEW kind \in TI!Flow,
           TI!ConfirmTrip(t, row, kind)
    PROVE  /\ flow' \in [Trip -> TI!Flow \cup {None}]
           /\ confirmed' \in [Trip -> {None, TI!Unreadable} \cup TI!Content]
  BY DEF TI!TypeOK, TI!ConfirmTrip, TI!Register

LEMMA InputInit == TI!Init => InputInv
  BY DEF TI!Init, TI!NoCare, TI!TypeOK, InputInv

LEMMA InputNext == InputInv /\ [TI!Next]_(TI!inputVars) => InputInv'
<1> SUFFICES ASSUME InputInv, [TI!Next]_(TI!inputVars) PROVE InputInv'
  OBVIOUS
<1> USE DEF InputInv
<1>0. "LEGACY_SINGLE" \in TI!Flow /\ "COLLABORATION_V2" \in TI!Flow
  BY DEF TI!Flow
<1>1. ASSUME NEW t \in Trip, NEW row \in TI!Content, TI!ConfirmDraft(t, row) PROVE InputInv'
  BY <1>0, <1>1, ConfirmTripTypes DEF TI!ConfirmDraft, TI!TypeOK
<1>2. ASSUME NEW t \in Trip, NEW row \in TI!Content, TI!AgreeOn(t, row) PROVE InputInv'
  BY <1>0, <1>2 DEF TI!AgreeOn, TI!Register, TI!TypeOK
<1>3. ASSUME NEW t \in Trip, NEW p \in Care, TI!SaveConstraints(t, p) PROVE InputInv'
  BY <1>3, SaveDraftTypes DEF TI!SaveConstraints, TI!TypeOK, CareRow
<1>4. ASSUME NEW t \in Trip, TI!ConfirmConstraints(t) PROVE InputInv'
  BY <1>4, ConfirmProfileTypes DEF TI!ConfirmConstraints, TI!TypeOK, CareRow
<1>5. ASSUME NEW t \in Trip, TI!Materialize(t) PROVE InputInv'
  <2>1. revision[t] \in TI!Content
    BY <1>5 DEF TI!Materialize, TI!TypeOK
  <2>2. revision[t].care \in Care
    BY <2>1 DEF TI!Content
  <2> QED  BY <1>0, <1>5, <2>1, <2>2, ConfirmTripTypes DEF TI!Materialize, TI!TypeOK
<1>6. ASSUME NEW t \in Trip, NEW b \in Bodies, TI!SaveTwoDay(t, b) PROVE InputInv'
  BY <1>6 DEF TI!SaveTwoDay, TI!TypeOK
<1>7. CASE TI!HandOver
  <2>1. handing.trip \in Trip /\ handing.profile \in Care
    BY <1>7 DEF TI!HandOver
  <2>2. care' \in [Trip -> CareRow]
    BY <1>7, <2>1, SaveDraftTypes, ConfirmProfileTypes DEF TI!HandOver
  <2> QED  BY <1>7, <2>2 DEF TI!HandOver, TI!TypeOK, CareRow
<1>8. CASE TI!Restart
  BY <1>0, <1>8 DEF TI!Restart, TI!BackfillConfirmedSingleFlows, TI!TypeOK
<1>9. CASE UNCHANGED TI!inputVars
  BY <1>9 DEF TI!inputVars, TI!TypeOK
<1> QED
  BY <1>1, <1>2, <1>3, <1>4, <1>5, <1>6, <1>7, <1>8, <1>9 DEF TI!Next, TI!Request

LEMMA InputTypes == TI!Spec => []TI!TypeOK
<1>1. InputInv => TI!TypeOK
  BY DEF InputInv
<1> QED  BY InputInit, InputNext, <1>1, PTL DEF TI!Spec

-----------------------------------------------------------------------------
(* The signed sets of places.  A digest names one draft, and the set of a  *)
(* run is stored before the run can answer.                                *)

SetOf(r) ==
    \E places, s :
        /\ runs[r].places \subseteq places
        /\ runs[r].digest = FS!ContentDigest([revision |-> runs[r].revision, places |-> places])
        /\ s \in factSets /\ s.digest = runs[r].digest

Shape(q) == q = [at |-> q.at, revision |-> q.revision, terms |-> q.terms,
                 digest |-> q.digest, places |-> q.places]

FactInv ==
    /\ \A s \in factSets : s.digest = FS!ContentDigest(s.draft)
    /\ DOMAIN runs = Run
    /\ \A r \in Run : Shape(runs[r])
    /\ \A r \in Run : runs[r].at \in {"signed", "answered"} => SetOf(r)

\* Only the run's own step matters to its set, and no set is ever removed.
LEMMA OtherRunsKeepTheirs ==
    ASSUME FactInv, NEW r \in Run, runs'[r] = runs[r], factSets \subseteq factSets',
           runs[r].at \in {"signed", "answered"}
    PROVE  SetOf(r)'
  BY DEF FactInv, SetOf

\* Whatever was signed before stays, and what is signed now is there.
LEMMA StoredOnce ==
    ASSUME FactInv, NEW d
    PROVE  /\ factSets \subseteq FS!Issued(d)
           /\ \A s \in FS!Issued(d) : s.digest = FS!ContentDigest(s.draft)
           /\ \E s \in FS!Issued(d) : s.digest = FS!ContentDigest(d)
<1>1. CASE \E s \in factSets : s.digest = FS!ContentDigest(d)
  BY <1>1 DEF FS!Issued, FactInv
<1>2. CASE ~\E s \in factSets : s.digest = FS!ContentDigest(d)
  <2> DEFINE new == [digest |-> FS!ContentDigest(d), draft |-> d]
  <2>1. FS!Issued(d) = factSets \cup {new}
    BY <1>2 DEF FS!Issued
  <2>2. new.digest = FS!ContentDigest(d) /\ new.draft = d
    OBVIOUS
  <2> HIDE DEF new
  <2> QED  BY <2>1, <2>2 DEF FactInv
<1> QED  BY <1>1, <1>2

LEMMA IssueStep ==
    ASSUME FactInv, NEW r \in Run, NEW places, FS!Issue(r, places)
    PROVE  FactInv'
<1> DEFINE signed == [revision |-> runs[r].revision, places |-> places]
           digest == FS!ContentDigest(signed)
<1>1. /\ factSets' = FS!Issued(signed)
      /\ runs' = [runs EXCEPT ![r].at = "signed", ![r].places = places, ![r].digest = digest]
  BY DEF FS!Issue
<1>2. /\ factSets \subseteq factSets'
      /\ \A s \in factSets' : s.digest = FS!ContentDigest(s.draft)
      /\ \E s \in factSets' : s.digest = digest
  BY <1>1, StoredOnce
<1>3. /\ runs'[r] = [at |-> "signed", revision |-> runs[r].revision,
                     terms |-> runs[r].terms, digest |-> digest, places |-> places]
      /\ \A u \in Run \ {r} : runs'[u] = runs[u]
      /\ DOMAIN runs' = Run
  <2>1. Shape(runs[r]) /\ DOMAIN runs = Run
    BY DEF FactInv
  <2> HIDE DEF digest
  <2> QED  BY <1>1, <2>1 DEF Shape
<1>4. SetOf(r)'
  <2>1. /\ runs'[r].places = places /\ runs'[r].digest = digest
        /\ runs'[r].revision = runs[r].revision
    BY <1>3
  <2>2. PICK s \in factSets' : s.digest = digest
    BY <1>2
  <2> QED  BY <2>1, <2>2 DEF SetOf
<1>5. \A u \in Run \ {r} : runs'[u].at \in {"signed", "answered"} => SetOf(u)'
  BY <1>2, <1>3, OtherRunsKeepTheirs
<1> HIDE DEF digest
<1>6. Shape(runs'[r])
  BY <1>3 DEF Shape
<1> QED  BY <1>2, <1>3, <1>4, <1>5, <1>6 DEF FactInv, Shape

\* A step that changes one run, and no set, to a run that needs no set or a
\* part of the one it had.
LEMMA RunStep ==
    ASSUME FactInv, UNCHANGED factSets, DOMAIN runs' = Run, NEW r \in Run,
           \A u \in Run \ {r} : runs'[u] = runs[u],
           Shape(runs'[r]),
           runs'[r].at \in {"signed", "answered"} =>
               /\ runs[r].at \in {"signed", "answered"}
               /\ runs'[r].digest = runs[r].digest /\ runs'[r].revision = runs[r].revision
               /\ runs'[r].places \subseteq runs[r].places
    PROVE  FactInv'
<1>1. runs'[r].at \in {"signed", "answered"} => SetOf(r)'
  BY DEF FactInv, SetOf
<1>2. \A u \in Run \ {r} : runs'[u].at \in {"signed", "answered"} => SetOf(u)'
  BY OtherRunsKeepTheirs
<1> QED  BY <1>1, <1>2 DEF FactInv

\* A run that failed has no set.
LEMMA FailedRow == Shape(FS!FailedRun) /\ FS!FailedRun.at = "failed"
  BY DEF Shape, FS!FailedRun, FS!NewRun

LEMMA FactStep == FactInv /\ [FS!Next]_(FS!vars) => FactInv'
<1> SUFFICES ASSUME FactInv, [FS!Next]_(FS!vars) PROVE FactInv'
  OBVIOUS
<1>0. \A r \in Run : Shape(runs[r]) /\ r \in DOMAIN runs
  BY DEF FactInv
<1>1. ASSUME NEW r \in Run, FS!Begin(r) PROVE FactInv'
  <2>1. runs' = [runs EXCEPT ![r].at = "searching", ![r].revision = agreed]
    BY <1>1 DEF FS!Begin
  <2>2. runs'[r] = [at |-> "searching", revision |-> agreed, terms |-> runs[r].terms,
                    digest |-> runs[r].digest, places |-> runs[r].places]
    BY <1>0, <2>1, Shape(runs[r]), r \in DOMAIN runs DEF Shape
  <2> QED  BY <1>1, <2>1, <2>2, RunStep DEF FS!Begin, FactInv, Shape
<1>2. ASSUME NEW r \in Run, NEW places \in SUBSET Place, FS!Search(r, places) PROVE FactInv'
  <2>1. runs' = [runs EXCEPT ![r].places = @ \cup places, ![r].terms = @ + 1]
    BY <1>2 DEF FS!Search
  <2>2. runs'[r] = [at |-> runs[r].at, revision |-> runs[r].revision,
                    terms |-> runs[r].terms + 1, digest |-> runs[r].digest,
                    places |-> runs[r].places \cup places]
    BY <1>0, <2>1, Shape(runs[r]), r \in DOMAIN runs DEF Shape
  <2>3. runs[r].at = "searching"
    BY <1>2 DEF FS!Search
  <2>4. /\ Shape(runs'[r]) /\ runs'[r].at = "searching"
        /\ DOMAIN runs' = Run /\ \A u \in Run \ {r} : runs'[u] = runs[u]
    BY <2>1, <2>2, <2>3 DEF FactInv, Shape
  <2> QED  BY <1>2, <2>4, RunStep DEF FS!Search
<1>3. ASSUME NEW r \in Run, NEW places \in SUBSET Place, FS!Issue(r, places) PROVE FactInv'
  BY <1>3, IssueStep
<1>4. ASSUME NEW r \in Run, NEW plan \in SUBSET Place, FS!Answer(r, plan) PROVE FactInv'
  <2>1. runs' = [runs EXCEPT ![r].at = "answered", ![r].places = plan]
    BY <1>4 DEF FS!Answer
  <2>2. runs'[r] = [at |-> "answered", revision |-> runs[r].revision,
                    terms |-> runs[r].terms, digest |-> runs[r].digest, places |-> plan]
    BY <1>0, <2>1, Shape(runs[r]), r \in DOMAIN runs DEF Shape
  <2>3. runs[r].at = "signed" /\ plan \subseteq runs[r].places
    BY <1>4 DEF FS!Answer
  <2> QED  BY <1>4, <2>1, <2>2, <2>3, RunStep DEF FS!Answer, FactInv, Shape
<1>5. ASSUME NEW r \in Run, FS!Fail(r) PROVE FactInv'
  <2>1. runs' = [runs EXCEPT ![r] = FS!FailedRun]
    BY <1>5 DEF FS!Fail
  <2>2. runs'[r] = FS!FailedRun /\ DOMAIN runs' = Run /\ \A u \in Run \ {r} : runs'[u] = runs[u]
    BY <2>1 DEF FactInv
  <2>3. UNCHANGED factSets
    BY <1>5 DEF FS!Fail
  <2> QED  BY <2>2, <2>3, FailedRow, RunStep
<1>6. ASSUME runs' = FS!Stopped, UNCHANGED factSets PROVE FactInv'
  <2>1. DOMAIN runs' = Run
    BY <1>6 DEF FS!Stopped
  <2>2. ASSUME NEW r \in Run
        PROVE  /\ Shape(runs'[r])
               /\ runs'[r].at \in {"signed", "answered"} => runs'[r] = runs[r]
    <3>1. runs'[r] \in {runs[r], FS!FailedRun}
      BY <1>6 DEF FS!Stopped
    <3> QED  BY <1>0, <3>1, FailedRow
  <2>3. \A r \in Run : runs'[r].at \in {"signed", "answered"} => SetOf(r)'
    BY <1>6, <2>2, OtherRunsKeepTheirs
  <2> QED  BY <1>6, <2>1, <2>2, <2>3 DEF FactInv, Shape
<1>7. CASE UNCHANGED <<runs, factSets>>
  BY <1>7 DEF FactInv, SetOf
<1>8. CASE FS!Revise \/ FS!Object \/ FS!Confirm \/ FS!Lapse
  BY <1>7, <1>8 DEF FS!Revise, FS!Object, FS!Confirm, FS!Lapse
<1>9. CASE FS!Crash
  BY <1>6, <1>9 DEF FS!Crash
<1>10. ASSUME NEW f \in Fetch, FS!FetchPlaces(f) PROVE FactInv'
  BY <1>7, <1>10 DEF FS!FetchPlaces
<1>11. ASSUME NEW f \in Fetch, FS!CutOff(f) PROVE FactInv'
  BY <1>6, <1>11 DEF FS!CutOff
<1>12. CASE UNCHANGED FS!vars
  BY <1>7, <1>12 DEF FS!vars
<1> QED
  BY <1>1, <1>2, <1>3, <1>4, <1>5, <1>8, <1>9, <1>10, <1>11, <1>12 DEF FS!Next

\* Once the guard lets a fetch through, the set that an answer names is found,
\* its digest fits, and only the revision decides.
LEMMA SetsAreServed == FactInv => FS!AnsweredFactsAreServable
<1> SUFFICES ASSUME FactInv, NEW r \in Run, NEW f \in Fetch, runs[r].at = "answered"
             PROVE  LET served == FS!PlacesOf(f, runs[r].digest, runs[r].digest)
                    IN  /\ served.code = "OK" <=>
                               FS!Guard(f) = "OK" /\ runs[r].revision = agreed
                        /\ FS!Guard(f) = "OK" /\ runs[r].revision # agreed =>
                               served.code = "PROVIDER_FACT_READY_CONTEXT_STALE"
                        /\ served.code = "OK" => runs[r].places \subseteq served.places
  BY DEF FS!AnsweredFactsAreServable
<1> DEFINE stored == {s \in factSets : s.digest = runs[r].digest}
           s == CHOOSE x \in stored : TRUE
           served == FS!PlacesOf(f, runs[r].digest, runs[r].digest)
<1>1. PICK places : /\ runs[r].places \subseteq places
                    /\ runs[r].digest = <<places, runs[r].revision>>
                    /\ stored # {}
  BY DEF FactInv, SetOf, FS!ContentDigest
<1>2. s \in stored
  BY <1>1
<1>3. /\ s.digest = <<s.draft.places, s.draft.revision>>
      /\ s.digest = <<places, runs[r].revision>>
  BY <1>1, <1>2 DEF FactInv, FS!ContentDigest
<1>4. s.draft.places = places /\ s.draft.revision = runs[r].revision
  BY <1>3
<1>5. ASSUME FS!Guard(f) # "OK"
      PROVE  served.code # "OK"
  <2>1. served = [code |-> FS!Guard(f)]
    BY <1>5 DEF FS!PlacesOf
  <2> QED  BY <1>5, <2>1
<1>6. ASSUME FS!Guard(f) = "OK"
      PROVE  served = IF runs[r].revision # agreed
                      THEN [code |-> "PROVIDER_FACT_READY_CONTEXT_STALE"]
                      ELSE [code |-> "OK", places |-> places]
  BY <1>1, <1>4, <1>6 DEF FS!PlacesOf
<1>7. CASE FS!Guard(f) = "OK" /\ runs[r].revision # agreed
  <2>1. served.code = "PROVIDER_FACT_READY_CONTEXT_STALE"
    BY <1>6, <1>7
  <2> QED  BY <1>7, <2>1
<1>8. CASE FS!Guard(f) = "OK" /\ runs[r].revision = agreed
  <2>1. served.code = "OK" /\ served.places = places
    BY <1>6, <1>8
  <2> QED  BY <1>1, <1>8, <2>1
<1> QED  BY <1>5, <1>7, <1>8

(***************************************************************************)
(* Whatever requests, lapsing leases, objections, revisions and crashes    *)
(* come between: a fetch of the set that an answer names, once the         *)
(* readiness guard lets it through, is handed all places of the answer,    *)
(* unless there is a later revision (get_provider_fact_set_places).        *)
(* Digests are taken to be injective.                                      *)
(***************************************************************************)
THEOREM AnsweredSetsAreServed == FS!Spec => []FS!AnsweredFactsAreServable
<1>1. ASSUME FS!Init PROVE FactInv
  <2>1. Shape(FS!NewRun) /\ FS!NewRun.at = "new"
    BY DEF FS!NewRun, Shape
  <2>2. factSets = {} /\ DOMAIN runs = Run /\ \A r \in Run : runs[r] = FS!NewRun
    BY <1>1 DEF FS!Init
  <2> QED  BY <2>1, <2>2 DEF FactInv
<1> QED  BY <1>1, FactStep, SetsAreServed, PTL DEF FS!Spec

\* A request has the revision it began with.
RunRow == [at : {"new", "searching", "signed", "answered", "failed"},
           revision : 0..MaxRevision, terms : 0..MaxTerms,
           digest : FS!Digests \cup {None}, places : SUBSET Place]

Begun(q) == q.at \in {"searching", "signed", "answered"} => q.revision \in 1..MaxRevision

LeaseRow == [revision : 0..MaxRevision, completed : BOOLEAN]

RunInv == FS!TypeOK /\ \A r \in Run : Begun(runs[r])

LEMMA RunInit == FS!Init => RunInv
<1>1. /\ 1 \in 1..MaxRevision /\ 0 \in 0..MaxRevision /\ 0 \in 0..MaxTerms
  BY BoundsAreNumbers
<1> QED  BY <1>1 DEF FS!Init, FS!NewRun, FS!NoRow, FS!TypeOK, RunInv, Begun

\* A step that gives one request another row.
LEMMA RowStep ==
    ASSUME RunInv, UNCHANGED <<agreed, ready, fetches>>, holder' \in Run \cup Fetch \cup {None},
           factSets' \subseteq FS!FactSet, NEW r \in Run, NEW row \in RunRow, Begun(row),
           DOMAIN runs' = Run, runs'[r] = row, runs' = [runs EXCEPT ![r] = runs'[r]]
    PROVE  RunInv'
<1>1. runs' \in [Run -> RunRow] /\ \A u \in Run \ {r} : runs'[u] = runs[u]
  BY DEF RunInv, FS!TypeOK, RunRow
<1>2. \A u \in Run : Begun(runs[u])'
  BY <1>1 DEF RunInv, Begun
<1> QED  BY <1>1, <1>2 DEF RunInv, FS!TypeOK, RunRow

LEMMA RunNext == RunInv /\ [FS!Next]_(FS!vars) => RunInv'
<1> SUFFICES ASSUME RunInv, [FS!Next]_(FS!vars) PROVE RunInv'
  OBVIOUS
<1>0. ASSUME NEW r \in Run
      PROVE  /\ runs[r] \in RunRow /\ Shape(runs[r]) /\ Begun(runs[r]) /\ r \in DOMAIN runs
             /\ DOMAIN runs = Run
             /\ agreed \in 1..MaxRevision /\ agreed \in 0..MaxRevision
             /\ factSets \subseteq FS!FactSet /\ FS!Released(r) \in Run \cup Fetch \cup {None}
  <2>1. runs[r] \in RunRow /\ Begun(runs[r]) /\ DOMAIN runs = Run
    BY DEF RunInv, FS!TypeOK, RunRow
  <2>2. Shape(runs[r])
    BY <2>1 DEF RunRow, Shape
  <2>3. agreed \in 1..MaxRevision /\ agreed \in 0..MaxRevision
    BY BoundsAreNumbers DEF RunInv, FS!TypeOK
  <2> QED  BY <2>1, <2>2, <2>3 DEF RunInv, FS!TypeOK, FS!Released
<1>1. CASE FS!Revise
  <2>1. agreed' \in 1..MaxRevision
    BY <1>1, BoundsAreNumbers DEF FS!Revise, RunInv, FS!TypeOK
  <2> QED  BY <1>1, <2>1 DEF FS!Revise, RunInv, FS!TypeOK, Begun
<1>2. CASE FS!Object \/ FS!Confirm \/ FS!Lapse
  BY <1>2 DEF FS!Object, FS!Confirm, FS!Lapse, RunInv, FS!TypeOK, Begun
<1>3. ASSUME NEW r \in Run, FS!Begin(r) PROVE RunInv'
  <2> DEFINE row == [at |-> "searching", revision |-> agreed, terms |-> runs[r].terms,
                     digest |-> runs[r].digest, places |-> runs[r].places]
  <2>1. runs' = [runs EXCEPT ![r].at = "searching", ![r].revision = agreed]
    BY <1>3 DEF FS!Begin
  <2>2. Shape(runs[r]) /\ r \in DOMAIN runs
    BY <1>0
  <2>3. /\ runs'[r] = row /\ runs' = [runs EXCEPT ![r] = runs'[r]] /\ DOMAIN runs' = DOMAIN runs
    BY <2>1, <2>2 DEF Shape
  <2>4. row \in RunRow /\ Begun(row)
    BY <1>0 DEF RunRow, Begun
  <2> QED  BY <1>0, <1>3, <2>3, <2>4, RowStep DEF FS!Begin
<1>4. ASSUME NEW r \in Run, NEW places \in SUBSET Place, FS!Search(r, places) PROVE RunInv'
  <2> DEFINE row == [at |-> runs[r].at, revision |-> runs[r].revision,
                     terms |-> runs[r].terms + 1, digest |-> runs[r].digest,
                     places |-> runs[r].places \cup places]
  <2>1. /\ runs' = [runs EXCEPT ![r].places = @ \cup places, ![r].terms = @ + 1]
        /\ runs[r].terms < MaxTerms
    BY <1>4 DEF FS!Search
  <2>2. Shape(runs[r]) /\ r \in DOMAIN runs
    BY <1>0
  <2>3. /\ runs'[r] = row /\ runs' = [runs EXCEPT ![r] = runs'[r]] /\ DOMAIN runs' = DOMAIN runs
    BY <2>1, <2>2 DEF Shape
  <2>4. runs[r].terms + 1 \in 0..MaxTerms
    BY <1>0, <2>1, BoundsAreNumbers DEF RunRow
  <2>5. row \in RunRow /\ Begun(row)
    BY <1>0, <2>4 DEF RunRow, Begun
  <2>6. UNCHANGED <<agreed, ready, holder, fetches, factSets>>
    BY <1>4 DEF FS!Search
  <2> HIDE DEF row
  <2> QED  BY <1>0, <2>3, <2>5, <2>6, RowStep DEF RunInv, FS!TypeOK
<1>5. ASSUME NEW r \in Run, NEW places \in SUBSET Place, FS!Issue(r, places) PROVE RunInv'
  <2> DEFINE signed == [revision |-> runs[r].revision, places |-> places]
             digest == FS!ContentDigest(signed)
             row == [at |-> "signed", revision |-> runs[r].revision,
                     terms |-> runs[r].terms, digest |-> digest, places |-> places]
  <2>1. /\ factSets' = FS!Issued(signed) /\ runs[r].at = "searching"
        /\ runs' = [runs EXCEPT ![r].at = "signed", ![r].places = places, ![r].digest = digest]
        /\ UNCHANGED <<agreed, ready, holder, fetches>>
    BY <1>5 DEF FS!Issue
  <2>2. Shape(runs[r]) /\ r \in DOMAIN runs
    BY <1>0
  <2>3. runs[r].revision \in 1..MaxRevision
    BY <1>0, <2>1 DEF Begun
  <2>4. signed \in FS!Draft
    BY <2>3 DEF FS!Draft
  <2>5. digest \in FS!Digests
    BY <2>4 DEF FS!Digests
  <2>6. factSets' \subseteq FS!FactSet
    BY <1>0, <2>1, <2>4, <2>5 DEF FS!Issued, FS!FactSet
  <2> HIDE DEF digest
  <2>7. /\ runs'[r] = row /\ runs' = [runs EXCEPT ![r] = runs'[r]] /\ DOMAIN runs' = DOMAIN runs
    BY <2>1, <2>2 DEF Shape
  <2>8. row \in RunRow /\ Begun(row)
    BY <1>0, <2>3, <2>5 DEF RunRow, Begun
  <2> HIDE DEF row
  <2> QED  BY <1>0, <2>1, <2>6, <2>7, <2>8, RowStep DEF RunInv, FS!TypeOK
<1>6. ASSUME NEW r \in Run, NEW plan \in SUBSET Place, FS!Answer(r, plan) PROVE RunInv'
  <2> DEFINE row == [at |-> "answered", revision |-> runs[r].revision,
                     terms |-> runs[r].terms, digest |-> runs[r].digest, places |-> plan]
  <2>1. /\ runs' = [runs EXCEPT ![r].at = "answered", ![r].places = plan]
        /\ runs[r].at = "signed" /\ holder' = FS!Released(r)
        /\ UNCHANGED <<agreed, ready, fetches, factSets>>
    BY <1>6 DEF FS!Answer
  <2>2. Shape(runs[r]) /\ r \in DOMAIN runs
    BY <1>0
  <2>3. /\ runs'[r] = row /\ runs' = [runs EXCEPT ![r] = runs'[r]] /\ DOMAIN runs' = DOMAIN runs
    BY <2>1, <2>2 DEF Shape
  <2>4. row \in RunRow /\ Begun(row)
    BY <1>0, <2>1 DEF RunRow, Begun
  <2> HIDE DEF row
  <2> QED  BY <1>0, <2>1, <2>3, <2>4, RowStep
<1>7. FS!FailedRun \in RunRow /\ Begun(FS!FailedRun)
  BY BoundsAreNumbers DEF FS!FailedRun, FS!NewRun, RunRow, Begun
<1>8. ASSUME NEW r \in Run, FS!Fail(r) PROVE RunInv'
  <2>1. /\ runs' = [runs EXCEPT ![r] = FS!FailedRun] /\ holder' = FS!Released(r)
        /\ UNCHANGED <<agreed, ready, fetches, factSets>>
    BY <1>8 DEF FS!Fail
  <2>2. /\ runs'[r] = FS!FailedRun /\ runs' = [runs EXCEPT ![r] = runs'[r]]
        /\ DOMAIN runs' = DOMAIN runs
    BY <1>0, <2>1
  <2> QED  BY <1>0, <1>7, <2>1, <2>2, RowStep
<1>9. FS!Stopped \in [Run -> RunRow] /\ \A r \in Run : Begun(FS!Stopped[r])
  BY <1>0, <1>7 DEF FS!Stopped
<1>10. CASE FS!Crash
  <2>1. runs' = FS!Stopped /\ UNCHANGED <<agreed, ready, holder, fetches, factSets>>
    BY <1>10 DEF FS!Crash
  <2> QED  BY <1>9, <2>1 DEF RunInv, FS!TypeOK, RunRow
\* The lease row of a fetch names the revision that its guard admitted.
<1>11. ASSUME NEW f \in Fetch, NEW completed \in BOOLEAN,
              fetches' = [fetches EXCEPT ![f] = [revision |-> agreed, completed |-> completed]]
       PROVE  fetches' \in [Fetch -> LeaseRow]
  <2>1. [revision |-> agreed, completed |-> completed] \in LeaseRow
    BY BoundsAreNumbers DEF RunInv, FS!TypeOK, LeaseRow
  <2> QED  BY <1>11, <2>1 DEF RunInv, FS!TypeOK, LeaseRow
<1>12. ASSUME NEW f \in Fetch, FS!FetchPlaces(f) PROVE RunInv'
  <2>1. fetches' \in [Fetch -> LeaseRow] /\ UNCHANGED <<agreed, ready, holder, runs, factSets>>
    BY <1>11, <1>12 DEF FS!FetchPlaces
  <2> QED  BY <2>1 DEF RunInv, FS!TypeOK, LeaseRow, Begun
<1>13. ASSUME NEW f \in Fetch, FS!CutOff(f) PROVE RunInv'
  <2>1. /\ fetches' \in [Fetch -> LeaseRow] /\ holder' = f /\ runs' = FS!Stopped
        /\ UNCHANGED <<agreed, ready, factSets>>
    BY <1>11, <1>13 DEF FS!CutOff
  <2> QED  BY <1>9, <2>1 DEF RunInv, FS!TypeOK, RunRow, LeaseRow
<1>14. CASE UNCHANGED FS!vars
  BY <1>14 DEF FS!vars, RunInv, FS!TypeOK, Begun
<1> QED
  BY <1>1, <1>2, <1>3, <1>4, <1>5, <1>6, <1>8, <1>10, <1>12, <1>13, <1>14 DEF FS!Next

LEMMA FactTypes == FS!Spec => []FS!TypeOK
<1>1. RunInv => FS!TypeOK
  BY DEF RunInv
<1> QED  BY RunInit, RunNext, <1>1, PTL DEF FS!Spec

-----------------------------------------------------------------------------
(* The services side by side.  A step of the composition is a step of one  *)
(* of them and leaves the rows of the others alone, so what is proved of   *)
(* each holds of all.                                                      *)

RNP == INSTANCE ResolutionsProofs WITH MaxRevision <- MaxDraftRevision

LEMMA ParentTripsRun == Spec => PT!Spec
<1>1. Init => PT!Init
  BY DEF Init
<1>2. [Next]_vars => [PT!Next]_(PT!parentVars)
  BY DEF Next, Call, vars, parentVars, PT!parentVars
<1> QED  BY <1>1, <1>2, PTL DEF Spec, PT!Spec

LEMMA SiblingPlacesRun == Spec => SP!Spec
<1>1. Init => SP!Init
  BY DEF Init
<1>2. [Next]_vars => [SP!Next]_(SP!placeVars)
  BY DEF Next, Call, vars, placeVars, SP!placeVars
<1> QED  BY <1>1, <1>2, PTL DEF Spec, SP!Spec

LEMMA TripInputsRun == Spec => TI!Spec
<1>1. Init => TI!Init
  BY DEF Init
<1>2. [Next]_vars => [TI!Next]_(TI!inputVars)
  BY DEF Next, Call, vars, inputVars, TI!inputVars
<1> QED  BY <1>1, <1>2, PTL DEF Spec, TI!Spec

LEMMA FactSetsRun == Spec => FS!Spec
<1>1. Init => FS!Init
  BY DEF Init
<1>2. [Next]_vars => [FS!Next]_(FS!vars)
  BY DEF Next, Call, vars, factVars, FS!vars
<1> QED  BY <1>1, <1>2, PTL DEF Spec, FS!Spec

(***************************************************************************)
(* The columns of every table keep their types: no step of any service     *)
(* writes what the schema of the stores does not admit, and an active seat *)
(* of a parent trip names the key that its session was made with           *)
(* (redeem_invitation).                                                    *)
(***************************************************************************)
THEOREM ServiceTypes == Spec => []TypeOK
<1>1. SP!Spec => []SP!TypeOK
  <2>1. PlaceInv => SP!TypeOK
    BY DEF PlaceInv
  <2> QED  BY PlaceInit, PlaceNext, <2>1, PTL DEF SP!Spec
<1>2. PT!TypeOK /\ SP!TypeOK /\ TI!TypeOK /\ FS!TypeOK => TypeOK
  BY DEF TypeOK
<1> QED
  BY <1>1, <1>2, ParentTripsRun, ParentTypes, SiblingPlacesRun, TripInputsRun, InputTypes,
     FactSetsRun, FactTypes, PTL

(***************************************************************************)
(* A client of a parent trip that holds the current version holds the      *)
(* current view (_bump_sync).                                              *)
(***************************************************************************)
THEOREM SameViews == Spec => []SameVersionSameView
<1>1. PT!SameVersionSameView => SameVersionSameView
  BY DEF SameVersionSameView
<1> QED  BY <1>1, ParentTripsRun, CurrentVersionsShowAll, PTL

(***************************************************************************)
(* A linked date keeps its child, and no child gets a second date (link of *)
(* parent_trip_store.py).                                                  *)
(***************************************************************************)
THEOREM LinksStayLinked == Spec => LinksAreFinal
<1> QED  BY ParentTripsRun, LinksStay, PTL DEF LinksAreFinal

(***************************************************************************)
(* A date leaves its child's date or budget behind only in a race (link,   *)
(* update_day_budget).                                                     *)
(***************************************************************************)
THEOREM DriftsComeFromRaces == Spec => DriftComesFromARace
<1> QED  BY ParentTripsRun, DriftsAreRaces, PTL DEF DriftComesFromARace

(***************************************************************************)
(* Two days whose plans in force visit the same place got there by a link  *)
(* (require_unique_candidate_places).                                      *)
(***************************************************************************)
THEOREM SharingComesByLinks == Spec => SharingComesFromLinking
<1> QED  BY SiblingPlacesRun, SharingIsByLinking, PTL DEF SharingComesFromLinking

(***************************************************************************)
(* A trip keeps its flow and its confirmed content (register_trip_flow,    *)
(* _confirm_trip).                                                         *)
(***************************************************************************)
THEOREM FlowsAreKept == Spec => OneFlowPerTrip
<1> QED  BY TripInputsRun, TripsKeepTheirFlow, PTL DEF OneFlowPerTrip

(***************************************************************************)
(* A fetch that the readiness guard lets through is handed the places of   *)
(* an answer exactly as long as the answer's revision is the current one   *)
(* (get_provider_fact_set_places).                                         *)
(***************************************************************************)
THEOREM AnsweredFactsAreServed == Spec => []AnsweredFactsAreServable
<1>1. FS!AnsweredFactsAreServable => AnsweredFactsAreServable
  BY DEF AnsweredFactsAreServable
<1> QED  BY <1>1, FactSetsRun, AnsweredSetsAreServed, PTL

LEMMA ResolutionsRun == Spec => RNP!Spec
<1>1. Init => RNP!Init
  BY DEF Init, RN!Init, RNP!Init, RN!FirstDraft, RNP!FirstDraft, RN!NoRecord, RNP!NoRecord,
     RN!NoRevision, RNP!NoRevision, RN!FirstContent, RNP!FirstContent, RN!Commands, RNP!Commands,
     RN!NewCommand, RNP!NewCommand
<1>2. RN!Next <=> RNP!Next
  BY DEF RN!NoRecord, RNP!NoRecord, RN!At, RNP!At, RN!GoOn, RNP!GoOn, RN!Stop, RNP!Stop,
         RN!Resolve, RNP!Resolve, RN!StillThere, RNP!StillThere, RN!Retry, RNP!Retry, RN!Apply,
         RNP!Apply, RN!Patch, RNP!Patch, RN!Advance, RNP!Advance, RN!Audit, RNP!Audit, RN!Finish,
         RNP!Finish, RN!Send, RNP!Send, RN!Understood, RNP!Understood, RN!Publish, RNP!Publish,
         RN!Confirm, RNP!Confirm, RN!Plan, RNP!Plan, RN!Crash, RNP!Crash, RN!Next, RNP!Next,
         RN!Commands, RNP!Commands, RN!NoRevision, RNP!NoRevision, RN!Status, RNP!Status,
         RN!CurrentContent, RNP!CurrentContent, RN!HeadHolds, RNP!HeadHolds, RN!Orphans,
         RNP!Orphans, RN!Recovered, RNP!Recovered, RN!Claimable, RNP!Claimable, RN!Claimed,
         RNP!Claimed, RN!Replays, RNP!Replays, RN!Completable, RNP!Completable, RN!Completed,
         RNP!Completed, RN!Released, RNP!Released
<1>3. [Next]_vars => [RNP!Next]_(RNP!vars)
  BY <1>2 DEF Next, Call, vars, resolutionVars, RNP!vars
<1> QED  BY <1>1, <1>3, PTL DEF Spec, RNP!Spec

(***************************************************************************)
(* A request that counts as settled wrote, published and audited its       *)
(* revision (_resolve of collaboration_service.py).                        *)
(***************************************************************************)
THEOREM SettledIsAudited == Spec => []ResolvedIsAudited
<1>1. RNP!Spec => []RNP!ResolvedIsAudited
  <2>1. None \notin [of : Approvals, step : RNP!Steps]
    BY NoneIsNoRow DEF RNP!Steps
  <2>2. 1 \in Owners
    BY SettlementsAreNamed
  <2>3. /\ Answers \cap Approvals = {}
        /\ Author \in [Answers -> Participants]
        /\ NoOwner \notin Owners
    BY SettlementsAreNamed
  <2> QED  BY <2>1, <2>2, <2>3, RNP!SettledIsAudited
<1>2. RNP!ResolvedIsAudited => ResolvedIsAudited
  BY DEF ResolvedIsAudited, RNP!ResolvedIsAudited, RN!ResolvedIsAudited, RN!Status, RNP!Status
<1> QED  BY <1>1, <1>2, ResolutionsRun, PTL

-----------------------------------------------------------------------------
(* Relaxations: what the items that are found in a draft say of it, and    *)
(* what a relaxation makes of a draft.                                     *)

\* What an item of each rule says of the draft in which it is found.
LEMMA Kinds ==
  ASSUME NEW v, NEW j \in RX!Evaluate(v)
  PROVE  /\ j.rule = "AMBIGUOUS" => j.path \in DOMAIN v.candidates
         /\ j.rule = "WINDOW_ORDER" => v.trip.end # None
         /\ j.rule = "BLOCKS_ALL_DAY" => v.trip.end # None
         /\ j.rule = "CAP_BELOW_SHARED" =>
              \E i \in DOMAIN v.members :
                 /\ j.path = RX!Path(i, "cap", 0)
                 /\ v.trip.budget # None /\ v.members[i].cap # None
                 /\ v.members[i].cap < v.trip.budget
         /\ j.rule = "MUST_AVOID" =>
              \E p, q \in RX!Paths(v) :
                 /\ p.field = "must" /\ q.field = "avoid" /\ RX!Value(v, p) = RX!Value(v, q)
                 /\ j.path = q /\ j.about = <<RX!Value(v, p), p>>
<1>1. CASE j \in RX!MissingItems(v)
  BY <1>1 DEF RX!MissingItems, RX!Item
<1>2. CASE j \in RX!AmbiguousItems(v)
  BY <1>2 DEF RX!AmbiguousItems, RX!Item
<1>3. CASE j \in RX!TimeItems(v)
  BY <1>3 DEF RX!TimeItems, RX!Item
<1>4. CASE j \in RX!BudgetItems(v)
  BY <1>4 DEF RX!BudgetItems, RX!Item
<1>5. CASE j \in RX!PlaceItems(v)
  BY <1>5 DEF RX!PlaceItems, RX!Item
<1>6. CASE j \in RX!CareItems(v)
  BY <1>6 DEF RX!CareItems, RX!Item
<1> QED  BY <1>1, <1>2, <1>3, <1>4, <1>5, <1>6 DEF RX!Evaluate

\* What each relaxation is offered for, and what it names.
SelectsCandidate(u, j, r) ==
    /\ j.rule = "AMBIGUOUS" /\ r.action = "SELECT_CANDIDATE"
    /\ r.path = j.path /\ r.member = j.path.of /\ j.path \in RX!Paths(u)

LeavesTheEnd(u, j, r) ==
    /\ j.rule \in {"WINDOW_ORDER", "BLOCKS_ALL_DAY"}
    /\ r.action \in {"SET_SHARED_FIELD", "EXTEND_SHARED_TIME"}
    /\ r.path = RX!Path(0, "end", 0) /\ r.member = 0 /\ r.value = None

LevelsABudget(u, j, r) ==
    /\ j.rule = "CAP_BELOW_SHARED"
    /\ \E i \in DOMAIN u.members :
          /\ j.path = RX!Path(i, "cap", 0)
          /\ u.trip.budget # None /\ u.members[i].cap # None
          /\ \/ /\ r.action = "LOWER_SHARED_BUDGET" /\ r.path = RX!Path(0, "budget", 0)
                /\ r.member = 0 /\ r.value = u.members[i].cap
             \/ /\ r.action = "RAISE_MEMBER_BUDGET_CAP" /\ r.path = RX!Path(i, "cap", 0)
                /\ r.member = i /\ r.value = u.trip.budget

RemovesAPlace(u, j, r) ==
    /\ j.rule = "MUST_AVOID"
    /\ \E p, q \in RX!Paths(u) :
          /\ p.field = "must" /\ q.field = "avoid" /\ RX!Value(u, p) = RX!Value(u, q)
          /\ j.path = q /\ j.about = <<RX!Value(u, p), p>>
          /\ \/ r.action = "REMOVE_MUST_VISIT" /\ r.path = p /\ r.member = p.of
             \/ r.action = "REMOVE_AVOID_PLACE" /\ r.path = q /\ r.member = q.of

LEMMA KindsOfOffers ==
  ASSUME NEW u, RX!Valid(u), NEW j, j \in RX!Evaluate(u), NEW r, r \in j.relaxations
  PROVE  \/ SelectsCandidate(u, j, r) \/ LeavesTheEnd(u, j, r)
         \/ LevelsABudget(u, j, r) \/ RemovesAPlace(u, j, r)
<1>1. j \notin RX!MissingItems(u)
  BY DEF RX!MissingItems, RX!Item
<1>2. CASE j \in RX!AmbiguousItems(u)
  BY <1>2 DEF RX!AmbiguousItems, RX!Item, RX!Relaxation, RX!Valid, RX!Open, SelectsCandidate
<1>3. CASE j \in RX!TimeItems(u)
  BY <1>3 DEF RX!TimeItems, RX!Item, RX!Relaxation, LeavesTheEnd
<1>4. CASE j \in RX!BudgetItems(u)
  BY <1>4 DEF RX!BudgetItems, RX!Item, RX!Relaxation, LevelsABudget
<1>5. CASE j \in RX!PlaceItems(u)
  BY <1>5 DEF RX!PlaceItems, RX!Item, RX!Relaxation, RemovesAPlace
<1>6. CASE j \in RX!CareItems(u)
  BY <1>6 DEF RX!CareItems, RX!Item, RX!Relaxation, LeavesTheEnd
<1>7. \/ j \in RX!MissingItems(u) \/ j \in RX!AmbiguousItems(u) \/ j \in RX!TimeItems(u)
      \/ j \in RX!BudgetItems(u) \/ j \in RX!PlaceItems(u) \/ j \in RX!CareItems(u)
  BY DEF RX!Evaluate
<1> QED  BY <1>1, <1>2, <1>3, <1>4, <1>5, <1>6, <1>7

\* A list that loses an element has another one, or none, in its place.
LEMMA Removed ==
  ASSUME NEW S, NEW s \in Seq(S), NEW k \in DOMAIN s, RX!IsInjective(s),
         k \in DOMAIN RX!RemoveAt(s, k)
  PROVE  RX!RemoveAt(s, k)[k] # s[k]
<1> DEFINE a == SubSeq(s, 1, k - 1)
           b == SubSeq(s, k + 1, Len(s))
<1>0. k \in 1..Len(s) /\ Len(s) \in Nat
  OBVIOUS
<1>1. a \in Seq(S) /\ Len(a) = k - 1
  BY <1>0
<1>2. b \in Seq(S) /\ Len(b) = Len(s) - k /\ \A i \in 1..Len(b) : b[i] = s[k + i]
  BY <1>0
<1>3. RX!RemoveAt(s, k) = a \o b
  BY DEF RX!RemoveAt
<1> HIDE DEF a, b
<1>4. Len(a \o b) = Len(s) - 1 /\ k \in DOMAIN (a \o b)
  BY <1>0, <1>1, <1>2, <1>3
<1>5. 1 \in 1..Len(b) /\ (a \o b)[k] = b[1]
  BY <1>0, <1>1, <1>2, <1>4
<1>6. k + 1 \in DOMAIN s /\ RX!RemoveAt(s, k)[k] = s[k + 1]
  BY <1>0, <1>2, <1>3, <1>5
<1> QED  BY <1>0, <1>6 DEF RX!IsInjective

\* A member's path to a list leads to an element of it.
LEMMA ListPath ==
  ASSUME NEW u, NEW p \in RX!Paths(u), p.field \in RX!Lists, p.of # 0
  PROVE  p.of \in DOMAIN u.members /\ p.at \in DOMAIN u.members[p.of][p.field]
<1>1. p \notin [of : {0}, field : DOMAIN u.trip, at : {0}]
  OBVIOUS
<1>2. p \notin [of : DOMAIN u.members, field : {"cap", "care"}, at : {0}]
  BY DEF RX!Lists
<1>3. PICK i \in DOMAIN u.members, f \in RX!Lists :
         p \in {RX!Path(i, f, k) : k \in DOMAIN u.members[i][f]}
  BY <1>1, <1>2 DEF RX!Paths
<1> QED  BY <1>3 DEF RX!Path

\* What a change leaves as it was, and what it makes of the path it names.
LEMMA SetsTheTrip ==
  ASSUME NEW u, RX!IsDraft(u), NEW f \in DOMAIN u.trip, NEW x
  PROVE  LET v == RX!SetPath(u, RX!Path(0, f, 0), x)
         IN  v.trip[f] = x /\ v.members = u.members
  BY DEF RX!IsDraft, RX!IsTraits, RX!SetPath, RX!Path

LEMMA SetsAMember ==
  ASSUME NEW u, RX!IsDraft(u), NEW i \in DOMAIN u.members, NEW p, p.of = i, NEW x
  PROVE  LET v == RX!SetPath(u, p, x)
         IN  /\ v.trip = u.trip /\ DOMAIN v.members = DOMAIN u.members
             /\ \A k \in DOMAIN u.members \ {i} : v.members[k] = u.members[k]
             /\ p.field = "cap" => v.members[i].cap = x
  BY DEF RX!IsDraft, RX!IsTraits, RX!SetPath, RX!Lists

LEMMA RemovesFromAList ==
  ASSUME NEW u, RX!IsDraft(u), NEW p \in RX!Paths(u), p.field \in RX!Lists
  PROVE  LET v == RX!RemovePath(u, p)
         IN  /\ v.trip = u.trip /\ DOMAIN v.members = DOMAIN u.members
             /\ \A k \in DOMAIN u.members \ {p.of} : v.members[k] = u.members[k]
             /\ v.members[p.of][p.field] = RX!RemoveAt(u.members[p.of][p.field], p.at)
             /\ p.of \in DOMAIN u.members /\ p.at \in DOMAIN u.members[p.of][p.field]
<1>1. p.of \in DOMAIN u.members /\ p.at \in DOMAIN u.members[p.of][p.field]
  BY DEF RX!IsDraft, RX!IsTraits, RX!Paths, RX!Path, RX!Lists
<1> QED  BY <1>1 DEF RX!IsDraft, RX!IsTraits, RX!RemovePath, RX!Lists

\* The draft v settles the offer o, made for the draft u.
IsSettled(u, o, v) ==
    /\ RX!Identity(o.item) \notin {RX!Identity(i) : i \in RX!Evaluate(v)}
    /\ o.relaxation.member # 0 => v.trip = u.trip
    /\ \A i \in DOMAIN u.members \ {o.relaxation.member} : v.members[i] = u.members[i]

LEMMA EndIsLeft ==
  ASSUME NEW u, RX!IsDraft(u), NEW o, LeavesTheEnd(u, o.item, o.relaxation)
  PROVE  IsSettled(u, o, RX!Patched(u, o.relaxation))
<1> DEFINE v == RX!SetPath(u, RX!Path(0, "end", 0), None)
<1>1. RX!Patched(u, o.relaxation) = v
  BY DEF LeavesTheEnd, RX!Patched
<1>2. v.trip["end"] = None /\ v.members = u.members
  BY SetsTheTrip DEF RX!IsDraft, RX!IsTraits
<1> HIDE DEF v
<1>3. \A i \in RX!Evaluate(v) : i.rule \notin {"WINDOW_ORDER", "BLOCKS_ALL_DAY"}
  BY <1>2, Kinds
<1>4. \A i \in RX!Evaluate(v) : RX!Identity(i) # RX!Identity(o.item)
  BY <1>3 DEF RX!Identity, LeavesTheEnd
<1> QED  BY <1>1, <1>2, <1>4 DEF IsSettled, LeavesTheEnd

LEMMA CandidateIsSelected ==
  ASSUME NEW u, RX!IsDraft(u), NEW o, SelectsCandidate(u, o.item, o.relaxation)
  PROVE  IsSettled(u, o, RX!Patched(u, o.relaxation))
<1> DEFINE r == o.relaxation
           p == o.item.path
           w == RX!SetPath(u, p, r.value)
           v == RX!Settled(w, p)
<1>1. RX!Patched(u, r) = v
  BY DEF SelectsCandidate, RX!Patched
<1>2. v.trip = w.trip /\ v.members = w.members /\ p \notin DOMAIN v.candidates
  BY DEF RX!Settled, RX!SetPath, RX!IsDraft
<1>3. \A i \in RX!Evaluate(v) : RX!Identity(i) # RX!Identity(o.item)
  BY <1>2, Kinds DEF RX!Identity, SelectsCandidate
<1>4. CASE p.of = 0
  <2>1. w.members = u.members
    BY <1>4 DEF RX!SetPath, RX!IsDraft
  <2> QED  BY <1>1, <1>2, <1>3, <1>4, <2>1 DEF IsSettled, SelectsCandidate
<1>5. CASE p.of # 0
  <2>1. p.of \in DOMAIN u.members
    BY <1>5 DEF SelectsCandidate, RX!Paths, RX!Path
  <2>2. w.trip = u.trip /\ \A k \in DOMAIN u.members \ {p.of} : w.members[k] = u.members[k]
    BY <2>1, SetsAMember
  <2> QED  BY <1>1, <1>2, <1>3, <1>5, <2>2 DEF IsSettled, SelectsCandidate
<1> QED  BY <1>4, <1>5

LEMMA BudgetIsLevelled ==
  ASSUME NEW u, RX!IsDraft(u), NEW o, LevelsABudget(u, o.item, o.relaxation)
  PROVE  IsSettled(u, o, RX!Patched(u, o.relaxation))
<1> DEFINE r == o.relaxation
           v == RX!Patched(u, r)
<1>1. PICK i \in DOMAIN u.members :
          /\ o.item.path = RX!Path(i, "cap", 0)
          /\ u.trip.budget # None /\ u.members[i].cap # None
          /\ \/ /\ r.action = "LOWER_SHARED_BUDGET" /\ r.path = RX!Path(0, "budget", 0)
                /\ r.member = 0 /\ r.value = u.members[i].cap
             \/ /\ r.action = "RAISE_MEMBER_BUDGET_CAP" /\ r.path = RX!Path(i, "cap", 0)
                /\ r.member = i /\ r.value = u.trip.budget
  BY DEF LevelsABudget
<1>2. i # 0 /\ u.trip.budget \in Nat /\ u.members[i].cap \in Nat
  BY <1>1 DEF RX!IsDraft, RX!IsTraits
<1>3. v = RX!SetPath(u, r.path, r.value)
  BY <1>1 DEF RX!Patched
<1>4. /\ r.member # 0 => v.trip = u.trip
      /\ \A k \in DOMAIN u.members \ {r.member} : v.members[k] = u.members[k]
      /\ v.members[i].cap = v.trip.budget /\ v.trip.budget \in Nat
  <2>1. CASE r.path = RX!Path(0, "budget", 0)
    <3>1. v.trip["budget"] = r.value /\ v.members = u.members
      BY <1>3, <2>1, SetsTheTrip DEF RX!IsDraft, RX!IsTraits
    <3> QED  BY <1>1, <1>2, <2>1, <3>1 DEF RX!Path
  <2>2. CASE r.path = RX!Path(i, "cap", 0)
    <3>1. /\ v.trip = u.trip /\ v.members[i].cap = r.value
          /\ \A k \in DOMAIN u.members \ {i} : v.members[k] = u.members[k]
      BY <1>3, <2>2, SetsAMember DEF RX!Path
    <3> QED  BY <1>1, <1>2, <2>2, <3>1 DEF RX!Path
  <2> QED  BY <1>1, <2>1, <2>2
<1> HIDE DEF v
<1>5. ASSUME NEW k \in RX!Evaluate(v), RX!Identity(k) = RX!Identity(o.item)  PROVE FALSE
  <2>1. k.rule = "CAP_BELOW_SHARED" /\ k.path = RX!Path(i, "cap", 0)
    BY <1>1, <1>5 DEF RX!Identity, LevelsABudget
  <2>2. PICK m \in DOMAIN v.members :
           /\ k.path = RX!Path(m, "cap", 0)
           /\ v.trip.budget # None /\ v.members[m].cap # None
           /\ v.members[m].cap < v.trip.budget
    BY <2>1, Kinds
  <2>3. m = i
    BY <2>1, <2>2 DEF RX!Path
  <2> QED  BY <1>4, <2>2, <2>3
<1> QED  BY <1>4, <1>5 DEF IsSettled, v

LEMMA PlaceIsRemoved ==
  ASSUME NEW u, RX!IsDraft(u), RX!Valid(u), NEW o, RemovesAPlace(u, o.item, o.relaxation)
  PROVE  IsSettled(u, o, RX!Patched(u, o.relaxation))
<1> DEFINE r == o.relaxation
           v == RX!Patched(u, r)
<1>1. PICK p, q \in RX!Paths(u) :
          /\ p.field = "must" /\ q.field = "avoid" /\ RX!Value(u, p) = RX!Value(u, q)
          /\ o.item.path = q /\ o.item.about = <<RX!Value(u, p), p>>
          /\ \/ r.action = "REMOVE_MUST_VISIT" /\ r.path = p /\ r.member = p.of
             \/ r.action = "REMOVE_AVOID_PLACE" /\ r.path = q /\ r.member = q.of
  BY DEF RemovesAPlace
<1>2. v = RX!RemovePath(u, r.path) /\ r.path \in RX!Paths(u) /\ r.path.field \in RX!Lists
  BY <1>1 DEF RX!Patched, RX!Lists
<1> DEFINE i == r.path.of
           s == u.members[i][r.path.field]
<1>3. /\ v.trip = u.trip /\ DOMAIN v.members = DOMAIN u.members
      /\ \A k \in DOMAIN u.members \ {i} : v.members[k] = u.members[k]
      /\ v.members[i][r.path.field] = RX!RemoveAt(s, r.path.at)
      /\ i \in DOMAIN u.members /\ r.path.at \in DOMAIN s
  BY <1>2, RemovesFromAList
<1>4. i # 0 /\ s \in Seq(RX!ToSet(s)) /\ RX!IsInjective(s)
  BY <1>2, <1>3 DEF RX!IsDraft, RX!IsTraits, RX!Valid
<1> HIDE DEF v
<1>5. /\ RX!Value(u, r.path) = s[r.path.at]
      /\ RX!Value(v, r.path) = RX!RemoveAt(s, r.path.at)[r.path.at]
  BY <1>2, <1>3, <1>4 DEF RX!Value
<1>6. r.path \in RX!Paths(v) => r.path.at \in DOMAIN RX!RemoveAt(s, r.path.at)
  <2> SUFFICES ASSUME r.path \in RX!Paths(v)  PROVE r.path.at \in DOMAIN v.members[i][r.path.field]
    BY <1>3
  <2> QED  BY <1>2, <1>3, <1>4, ListPath
<1>7. r.path \in RX!Paths(v) => RX!Value(v, r.path) # RX!Value(u, r.path)
  <2> SUFFICES ASSUME r.path \in RX!Paths(v)
               PROVE  RX!RemoveAt(s, r.path.at)[r.path.at] # s[r.path.at]
    BY <1>5
  <2>1. r.path.at \in DOMAIN s /\ r.path.at \in DOMAIN RX!RemoveAt(s, r.path.at)
    BY <1>3, <1>6
  <2> QED  BY ONLY <1>4, <2>1, Removed
<1>8. ASSUME NEW k \in RX!Evaluate(v), RX!Identity(k) = RX!Identity(o.item)  PROVE FALSE
  <2>1. k.rule = "MUST_AVOID" /\ k.path = q /\ k.about = <<RX!Value(u, p), p>>
    BY <1>1, <1>8 DEF RX!Identity, RemovesAPlace
  <2>2. PICK c, d \in RX!Paths(v) :
           /\ RX!Value(v, c) = RX!Value(v, d) /\ k.path = d /\ k.about = <<RX!Value(v, c), c>>
    BY <2>1, Kinds
  <2>3. c = p /\ d = q /\ RX!Value(v, p) = RX!Value(u, p) /\ RX!Value(v, q) = RX!Value(u, q)
    BY <1>1, <2>1, <2>2
  <2> QED  BY <1>1, <1>7, <2>2, <2>3
<1>9. r.member = i
  BY <1>1
<1> QED  BY <1>3, <1>8, <1>9 DEF IsSettled, v

LEMMA OffersSettle ==
  ASSUME NEW u, RX!IsDraft(u), RX!Valid(u)
  PROVE  RX!RelaxationsSettle(u, RX!Relaxed(u))
<1>1. ASSUME NEW o \in DOMAIN RX!Relaxed(u), RX!Relaxed(u)[o].code = "OK"
      PROVE  IsSettled(u, o, RX!Relaxed(u)[o].value)
  <2>1. o \in RX!Offers(u) /\ RX!Relaxed(u)[o] = RX!ApplyPatch(u, o.relaxation)
    BY <1>1 DEF RX!Relaxed
  <2>2. o.item \in RX!Evaluate(u) /\ o.relaxation \in o.item.relaxations
    BY <2>1 DEF RX!Offers
  <2>3. RX!Relaxed(u)[o].value = RX!Patched(u, o.relaxation)
    BY <1>1, <2>1 DEF RX!ApplyPatch, RX!Refused, RX!Accepted
  <2> QED  BY <2>2, <2>3, KindsOfOffers, EndIsLeft, CandidateIsSelected, BudgetIsLevelled,
              PlaceIsRemoved
<1> QED  BY <1>1 DEF RX!RelaxationsSettle, IsSettled

-----------------------------------------------------------------------------
(* The services that keep no state: until a call has answered there is no  *)
(* result, and then it is what the service makes of the input.             *)

CallInv ==
    /\ scene \in Stateful \cup Pure
    /\ input \in IF scene \in Pure THEN Inputs(scene) ELSE {None}
    /\ result \in {None, Called(scene, input)}

LEMMA CallInit == Init => CallInv
BY DEF Init, CallInv

LEMMA CallNext == CallInv /\ [Next]_vars => CallInv'
<1> SUFFICES ASSUME CallInv, [Next]_vars
             PROVE  CallInv'
  OBVIOUS
<1>1. scene' = scene /\ input' = input /\ (result' = result \/ result' = Called(scene, input))
  BY DEF Next, Call, vars, callVars
<1>2. Inputs(scene)' = Inputs(scene)
  BY <1>1 DEF Inputs
<1> QED  BY <1>1, <1>2 DEF CallInv

LEMMA CallsAnswer == Spec => []CallInv
BY CallInit, CallNext, PTL DEF Spec

\* A plan that the planner accepts, or that is recommended from signed places,
\* suits every member of the group, and not only the merged constraints against
\* which planner.py and recommendation_service.py check it.
THEOREM PlansSuitEveryone == Spec => []AcceptedPlanSuitsEveryone
<1>1. CallInv => AcceptedPlanSuitsEveryone
  <2> SUFFICES ASSUME CallInv
               PROVE  AcceptedPlanSuitsEveryone
    OBVIOUS
  <2>1. ASSUME Answered("plan"), result.code = "OK"
        PROVE  SuitsEveryone(result.value)
    <3>1. input \in PlanInputs /\ result = Generate(input)
      BY <2>1 DEF CallInv, Answered, Pure, Inputs, Called
    <3>2. IsRequest(input)
      BY <3>1, RequestsAreTyped
    <3> QED  BY <2>1, <3>1, <3>2, AcceptedSuitsEveryone
  <2>2. ASSUME Answered("signed places"), result.code = "OK"
        PROVE  RecommendedSuits(input.facts, result.value.plan)
    <3>1. /\ input \in SignedInputs
          /\ result = RecommendSigned(input.facts, input.ids, input.proposal, input.routed)
      BY <2>2 DEF CallInv, Answered, Pure, Inputs, Called
    <3>2. \A order \in OrdersAsked(input.ids, input.proposal) :
             input.routed[order] # None => IsBuilt(input.routed[order])
      BY <3>1, RequestsAreTyped
    <3> QED  BY <2>2, <3>1, <3>2, RecommendedSuitsEveryone
  <2> QED  BY <2>1, <2>2 DEF AcceptedPlanSuitsEveryone
<1> QED  BY <1>1, CallsAnswer, PTL

\* Every relaxation that the draft revision service can apply to a stored draft
\* settles the item for which hard_conflicts.py offers it, and changes nothing
\* that is not its chooser's.
THEOREM RelaxationsDoSettle == Spec => []RelaxationsSettle
<1>1. CallInv => RelaxationsSettle
  <2> SUFFICES ASSUME CallInv, Answered("draft")
               PROVE  RX!RelaxationsSettle(input, result)
    BY DEF RelaxationsSettle
  <2>1. input \in DraftInputs /\ result = RX!Relaxed(input)
    BY DEF CallInv, Answered, Pure, Inputs, Called
  <2> QED  BY <2>1, DraftsAreValid, OffersSettle
<1> QED  BY <1>1, CallsAnswer, PTL

\* The review of a candidate that everyone has answered leads to a plan of which
\* nothing is unknown and which costs what was known and answered, or else to the
\* one refusal that the answers call for (_confirm_review_ready).
THEOREM ReviewsAreComplete == Spec => []ConfirmedReviewIsComplete
<1>1. CallInv => ConfirmedReviewIsComplete
  <2> SUFFICES ASSUME CallInv, Answered("review")
               PROVE  ReviewIsComplete(input.candidate, input.answers, result)
    BY DEF ConfirmedReviewIsComplete
  <2>1. input \in ReviewInputs /\ result = ConfirmReview(input.candidate, input.answers)
    BY DEF CallInv, Answered, Pure, Inputs, Called
  <2> QED  BY <2>1, ReviewsAreOfPlans, AnsweredReviewIsComplete
<1> QED  BY <1>1, CallsAnswer, PTL

\* Whatever places were found and however the model ranks them, a recommendation
\* visits what each member asked for and nothing that one of them avoids or cannot
\* afford, and eats once for each meal of the day.
THEOREM HardLimitsAreKept == Spec => []HardLimitsHold
<1>1. CallInv => HardLimitsHold
  <2> SUFFICES ASSUME CallInv, Answered("recommendation")
               PROVE  KeepsHardLimits(input.found, input.trip, result)
    BY DEF HardLimitsHold
  <2>1. /\ input \in RecommendationInputs
        /\ result = Recommend(input.found, input.ranking, input.trip)
    BY DEF CallInv, Answered, Pure, Inputs, Called
  <2> QED  BY <2>1, RecommendationsAreTyped, RecommendedKeepsHardLimits
<1> QED  BY <1>1, CallsAnswer, PTL

\* On a day with a meal a recommendation depends neither on the model's ranking nor
\* on the order in which the provider lists the places (choose_single_plan).
THEOREM RankingStaysAHint == Spec => []RankingIsAHint
<1>1. CallInv => RankingIsAHint
  <2> SUFFICES ASSUME CallInv, Answered("recommendation")
               PROVE  TakesTheRankingAsAHint(input.found, input.trip, result)
    BY DEF RankingIsAHint
  <2>1. /\ input \in RecommendationInputs
        /\ result = Recommend(input.found, input.ranking, input.trip)
    BY DEF CallInv, Answered, Pure, Inputs, Called
  <2> QED  BY <2>1, RecommendationsAreTyped, RankingIsOnlyAHint
<1> QED  BY <1>1, CallsAnswer, PTL

\* Places that were signed can be planned with: the restaurants and visits that
\* pre_filter_provider_places reserves are enough for choose_single_plan, unless
\* the members require more restaurants than the day has meals.
THEOREM SignedFactsDoHaveAPlan == Spec => []SignedFactsHaveAPlan
<1>1. CallInv => SignedFactsHaveAPlan
  <2> SUFFICES ASSUME CallInv, Answered("recommendation")
               PROVE  CanBePlanned(input.found, input.trip, result)
    BY DEF SignedFactsHaveAPlan
  <2>1. /\ input \in RecommendationInputs
        /\ result = Recommend(input.found, input.ranking, input.trip)
    BY DEF CallInv, Answered, Pure, Inputs, Called
  <2> QED  BY <2>1, RecommendationsAreTyped, SignedCanBePlanned
<1> QED  BY <1>1, CallsAnswer, PTL
=============================================================================
