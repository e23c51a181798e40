---------------------------- MODULE PlanIssuance ----------------------------
(***************************************************************************)
(* How a plan of a shared trip comes into force: the planning boundary     *)
(* (planning_boundary_service.py) stages its evidence in the trusted       *)
(* planning store (trusted_planning_store.py), registers it in the plan    *)
(* store and marks it issued, in three transactions; decisions later ask   *)
(* for the evidence and for the revision it was made for.                  *)
(*                                                                         *)
(* The boundary never awaits, so one handler runs at a time and only a     *)
(* crash or the clock comes between its steps. Between two handlers the    *)
(* members go on: the draft, its publication and the leases are those of   *)
(* RevisionContract, which Collaboration implements.                       *)
(***************************************************************************)
EXTENDS PlanVersions

CONSTANTS
    Shared,         \* the trip
    Candidate,      \* candidates with facts to be confirmed by the user
    Kind,           \* the bridge that makes each planId
    CandidateOf,    \* the candidate whose confirmation makes a V1, or None
    Content,        \* what a revision can say of the trip
    ContentOf,      \* what the request of a plan, or a candidate, says of it
    ItineraryOf,    \* the tasks of each plan
    Evidence,       \* what a submitted replan was selected among
    Operations,     \* operation ids
    MaxRevision     \* bound: no revision after this one is saved

Kinds == {"V1", "V2", "ADJUSTMENT"}

(* A planId is a digest: of the request for a V1, and of more for a V2, so *)
(* it determines everything else about the plan.                           *)
ASSUME PlansAreDigests ==
    /\ Trip = {Shared}
    /\ Kind \in [Plan -> Kinds]
    /\ CandidateOf \in [Plan -> Candidate \cup {None}]
    /\ ContentOf \in [Plan \cup Candidate -> Content]
    /\ \A p \in Plan : CandidateOf[p] # None => ContentOf[p] = ContentOf[CandidateOf[p]]
    /\ ItineraryOf \in [Plan -> Itinerary]
    /\ None \notin Candidate \cup Evidence \cup Operations
    /\ MaxRevision \in Nat \ {0}

VARIABLES
    saved,          \* the newest revision of the draft
    published,      \* the revision of the collaboration session
    granted,        \* operations with a lease in force
    content,        \* what each revision says
    issuance,       \* rows of trusted_plan_issuances
    review,         \* rows of candidate_plan_reviews, per candidate and revision
    handler         \* the running boundary call

vars == <<planVars, saved, published, granted, content, issuance, review, handler>>

Revisions == INSTANCE RevisionContract

agreement == <<saved, published, granted, content>>

-----------------------------------------------------------------------------

Revision == 1 .. MaxRevision

IssuanceRow == [state : {"NONE", "VALIDATED", "ISSUED"}, binding : 0 .. MaxRevision,
                evidence : Evidence \cup {None}]

Unstaged == [state |-> "NONE", binding |-> 0, evidence |-> None]

ReviewRow == [state : {"NONE", "PENDING", "CONFIRMED"}, plan : Plan \cup {None}]

NoReview == [state |-> "NONE", plan |-> None]

HandlerRow ==
    [at : {"idle", "reviewing", "staging", "admitting", "registering", "issuing",
           "closing", "deciding", "ending"},
     op : Operations \cup {None},
     goal : {"NONE", "REVIEW", "REGISTER", "CONFIRM", "ACCEPT", "REJECT"},
     plan : Plan \cup {None},
     revision : 0 .. MaxRevision,
     evidence : Evidence \cup {None},
     candidate : Candidate \cup {None}]

Idle == [at |-> "idle", op |-> None, goal |-> "NONE", plan |-> None,
         revision |-> 0, evidence |-> None, candidate |-> None]

LoopFree == handler = Idle

Issued(p) == issuance[p].state = "ISSUED"

(* The permit and the immutable evidence name the same revision. The       *)
(* readiness digest covers the revision number.                            *)
BoundTo(p, r) == issuance[p].binding = r

FitsRevision(x) == ContentOf[x] = content[published]

CurrentV1 == {b \in PlansOf(Shared, "CURRENT") : version[b] = 1}

Version(p) == IF Kind[p] = "V1" THEN 1 ELSE 2

-----------------------------------------------------------------------------
(* The members: revisions are saved and published, and other planning      *)
(* operations (recommendations, the materialized trip) hold the lease over *)
(* their awaits.                                                           *)

\* Mutant: the head moves and the row of the revision is missing.
SaveHeadOnly(c) ==
    /\ LoopFree
    /\ saved < MaxRevision
    /\ Revisions!Save
    /\ UNCHANGED <<planVars, content, issuance, review, handler>>

SaveRevision(c) ==
    /\ LoopFree
    /\ saved < MaxRevision
    /\ Revisions!Save
    /\ content' = Append(content, c)
    /\ UNCHANGED <<planVars, issuance, review, handler>>

PublishRevision ==
    /\ LoopFree
    /\ Revisions!Publish
    /\ UNCHANGED <<planVars, content, issuance, review, handler>>

OtherOperation(op) ==
    /\ LoopFree
    /\ Revisions!Grant(op)
    /\ UNCHANGED <<planVars, content, issuance, review, handler>>

(* The clock passes expires_at, or another operation is done.              *)
LeaseEnds(op) ==
    /\ Revisions!End(op)
    /\ UNCHANGED <<planVars, content, issuance, review, handler>>

-----------------------------------------------------------------------------
(* A boundary call takes the lease and checks what it needs to begin.      *)

Begin(op, at, goal, p, e, c) ==
    /\ LoopFree
    /\ Revisions!Grant(op)
    /\ handler' = [at |-> at, op |-> op, goal |-> goal, plan |-> p,
                   revision |-> published, evidence |-> e, candidate |-> c]
    /\ UNCHANGED <<planVars, content, issuance, review>>

(* generate_v1 with a candidate that needs no confirmation.                *)
MayGenerate(p) ==
    /\ Kind[p] = "V1"
    /\ CandidateOf[p] = None
    /\ FitsRevision(p)

GenerateV1(op, p) ==
    /\ MayGenerate(p)
    /\ Begin(op, "staging", "REGISTER", p, None, None)

(* generate_v1 with warnings: a review is stored instead of a plan.        *)
GenerateReview(op, c) ==
    /\ FitsRevision(c)
    /\ Begin(op, "reviewing", "REVIEW", None, None, c)

(* confirm_review: the plan made of this candidate and the confirmations.  *)
(* The request of the plan holds the creation time of the review row, so   *)
(* plans of two rows differ.                                               *)
MayConfirmReview(p) ==
    /\ Kind[p] = "V1"
    /\ CandidateOf[p] # None
    /\ review[<<CandidateOf[p], published>>].state = "PENDING"
    /\ FitsRevision(p)
    /\ issuance[p].binding \in {0, published}

ConfirmReview(op, p) ==
    /\ MayConfirmReview(p)
    /\ Begin(op, "staging", "REGISTER", p, None, CandidateOf[p])

\* Mutant: a replan does not ask which revision the V1 was made for.
MayReplanAnyV1(p) == CurrentV1 # {} /\ FitsRevision(p)

(* The V1 in force is issued, and for this very revision.                  *)
MayReplan(p) ==
    /\ \E b \in CurrentV1 : Issued(b) /\ BoundTo(b, published)
    /\ FitsRevision(p)

(* generate_v2 and generate_v2_from_events.                                *)
MayGenerateV2(p) == Kind[p] = "V2" /\ MayReplan(p)

GenerateV2(op, p, e) ==
    /\ MayGenerateV2(p)
    /\ Begin(op, "staging", "REGISTER", p, e, None)

(* generate_v2_from_adjustment looks at the trip first. Its planId covers  *)
(* the readiness of the permit.                                            *)
MayAdjust(p) ==
    /\ Kind[p] = "ADJUSTMENT"
    /\ tripStatus[Shared] = "EXECUTING"
    /\ PlansOf(Shared, "PROPOSED") = {}
    /\ MayReplan(p)
    /\ issuance[p].binding \in {0, published}

GenerateAdjustment(op, p) ==
    /\ MayAdjust(p)
    /\ Begin(op, "staging", "REGISTER", p, None, None)

\* Mutant: a decision does not ask which revision the plan was made for.
DecidableAnyRevision(p) == HasPlan(p) /\ Issued(p)

(* confirm_v1, decide_v2 and decide_adjustment_v2.                         *)
Decidable(p) ==
    /\ HasPlan(p)
    /\ Issued(p)
    /\ BoundTo(p, published)

BeginDecision(op, p, goal) ==
    /\ Decidable(p)
    /\ goal \in IF Version(p) = 1 THEN {"CONFIRM"} ELSE {"ACCEPT", "REJECT"}
    /\ Begin(op, "admitting", goal, p, None, None)

-----------------------------------------------------------------------------
(* Its steps. A refused step ends the call.                                *)

At(step) == handler.at = step

GoTo(step) == handler' = [handler EXCEPT !.at = step]

StageReview ==
    /\ At("reviewing")
    /\ review' = [review EXCEPT ![<<handler.candidate, handler.revision>>].state =
                     IF @ = "NONE" THEN "PENDING" ELSE @]
    /\ GoTo("ending")
    /\ UNCHANGED <<planVars, agreement, issuance>>

StageRow == [state |-> "VALIDATED", binding |-> handler.revision,
             evidence |-> handler.evidence]

SameEvidence(p) ==
    /\ issuance[p].binding = handler.revision
    /\ issuance[p].evidence = handler.evidence

\* Mutant: an existing row is replaced.
StageAnew ==
    /\ At("staging")
    /\ issuance' = [issuance EXCEPT ![handler.plan] = StageRow]
    /\ GoTo("admitting")
    /\ UNCHANGED <<planVars, agreement, review>>

(* stage_candidate: a new row, the same row again, or a conflict.          *)
Stage ==
    /\ At("staging")
    /\ LET p == handler.plan IN
       \/ /\ issuance[p] = Unstaged
          /\ issuance' = [issuance EXCEPT ![p] = StageRow]
          /\ GoTo("admitting")
       \/ /\ issuance[p] # Unstaged
          /\ GoTo(IF SameEvidence(p) THEN "admitting" ELSE "ending")
          /\ UNCHANGED issuance
    /\ UNCHANGED <<planVars, agreement, review>>

(* The permit must not have expired when the plan store is called.         *)
Admit ==
    /\ At("admitting")
    /\ GoTo(IF handler.op \notin granted THEN "ending"
            ELSE IF handler.goal = "REGISTER" THEN "registering" ELSE "deciding")
    /\ UNCHANGED <<planVars, agreement, issuance, review>>

Registration(p) ==
    IF Kind[p] = "V1"
    THEN RegisterV1(Shared, p, ItineraryOf[p])
    ELSE \E b \in CurrentV1 : RegisterV2(Shared, p, b, ItineraryOf[p])

(* register_proposed accepts a new plan.                                   *)
Registrable(p) ==
    /\ ~HasPlan(p)
    /\ ~VersionTaken(Shared, Version(p))
    /\ IF Kind[p] = "V1"
       THEN /\ tripStatus[Shared] \in {"NONE", "PLAN_REVIEW"}
            /\ PlansOf(Shared, "CURRENT") = {}
       ELSE /\ tripStatus[Shared] = "EXECUTING"
            /\ CurrentV1 # {}

(* _register_generated: a plan registered before is taken up again, a V2   *)
(* only while it is undecided.                                             *)
Recoverable(p) == HasPlan(p) /\ (Version(p) = 2 => status[p] = "PROPOSED")

\* Mutants: a refusal of the plan store is overlooked; the review is closed
\* before the plan is issued.
RegisterInAnyCase ==
    /\ At("registering")
    /\ IF Registrable(handler.plan) THEN Registration(handler.plan) ELSE UNCHANGED planVars
    /\ GoTo("issuing")
    /\ UNCHANGED <<agreement, issuance, review>>

RegisterThenClose ==
    /\ At("registering")
    /\ Registrable(handler.plan)
    /\ Registration(handler.plan)
    /\ GoTo(IF handler.candidate = None THEN "issuing" ELSE "closing")
    /\ UNCHANGED <<agreement, issuance, review>>

Register ==
    /\ At("registering")
    /\ LET p == handler.plan IN
       \/ /\ Registrable(p)
          /\ Registration(p)
          /\ GoTo("issuing")
       \/ /\ ~Registrable(p)
          /\ GoTo(IF Recoverable(p) THEN "issuing" ELSE "ending")
          /\ UNCHANGED planVars
    /\ UNCHANGED <<agreement, issuance, review>>

(* mark_issued, again if need be.                                          *)
MarkIssued ==
    /\ At("issuing")
    /\ issuance' = [issuance EXCEPT ![handler.plan].state = "ISSUED"]
    /\ GoTo(IF handler.candidate = None THEN "ending" ELSE "closing")
    /\ UNCHANGED <<planVars, agreement, review>>

(* mark_review_confirmed.                                                  *)
CloseReview ==
    /\ At("closing")
    /\ review' = [review EXCEPT ![<<handler.candidate, handler.revision>>] =
                     [state |-> "CONFIRMED", plan |-> handler.plan]]
    /\ GoTo("ending")
    /\ UNCHANGED <<planVars, agreement, issuance>>

Transition(p) ==
    CASE handler.goal = "CONFIRM" -> Confirm(Shared, p) \/ ConfirmReplay(Shared, p)
      [] handler.goal = "ACCEPT"  -> AcceptV2(Shared, p) \/ AcceptReplay(Shared, p)
      [] handler.goal = "REJECT"  -> RejectV2(Shared, p) \/ RejectReplay(Shared, p)

(* The decision is carried out, or refused: by the plan store once the     *)
(* plan is decided, or, if it would adopt the plan, by the places its      *)
(* parent trip has already visited.                                        *)
Decide ==
    /\ At("deciding")
    /\ GoTo("ending")
    /\ \/ Transition(handler.plan)
       \/ /\ handler.goal = "REJECT" => status[handler.plan] # "PROPOSED"
          /\ UNCHANGED planVars
    /\ UNCHANGED <<agreement, issuance, review>>

(* complete_lease, unless the lease expired before.                        *)
Finish ==
    /\ At("ending")
    /\ granted' = granted \ {handler.op}
    /\ handler' = Idle
    /\ UNCHANGED <<planVars, saved, published, content, issuance, review>>

(* The process dies inside the call; the lease stays until it expires.     *)
Crash ==
    /\ ~LoopFree
    /\ handler' = Idle
    /\ UNCHANGED <<planVars, agreement, issuance, review>>

(* POST execution/start asks for no permit.                                *)
Start ==
    /\ LoopFree
    /\ StartExecution(Shared)
    /\ UNCHANGED <<agreement, issuance, review, handler>>

-----------------------------------------------------------------------------

Init ==
    /\ PlanInit
    /\ Revisions!Init
    /\ content \in [{1} -> Content]
    /\ issuance = [p \in Plan |-> Unstaged]
    /\ review = [x \in Candidate \X Revision |-> NoReview]
    /\ handler = Idle

Members ==
    \/ \E c \in Content : SaveRevision(c)
    \/ PublishRevision
    \/ \E op \in Operations : OtherOperation(op) \/ LeaseEnds(op)

Calls(op) ==
    \/ \E c \in Candidate : GenerateReview(op, c)
    \/ \E p \in Plan :
          \/ GenerateV1(op, p) \/ ConfirmReview(op, p)
          \/ \E e \in Evidence : GenerateV2(op, p, e)
          \/ GenerateAdjustment(op, p)
          \/ \E goal \in {"CONFIRM", "ACCEPT", "REJECT"} : BeginDecision(op, p, goal)

Steps ==
    \/ StageReview \/ Stage \/ Admit \/ Register \/ MarkIssued \/ CloseReview
    \/ Decide \/ Finish \/ Crash

Next == Members \/ (\E op \in Operations : Calls(op)) \/ Steps \/ Start

Spec == Init /\ [][Next]_vars

-----------------------------------------------------------------------------
(* Types: the columns of the rows; the members are never more than one     *)
(* unpublished revision ahead, and every revision has its row.             *)
TypeOK ==
    /\ PlanTypeOK
    /\ saved \in Revision
    /\ published \in Revision
    /\ published <= saved /\ saved <= published + 1
    /\ granted \subseteq Operations
    /\ content \in [1 .. saved -> Content]
    /\ issuance \in [Plan -> IssuanceRow]
    /\ review \in [Candidate \X Revision -> ReviewRow]
    /\ handler \in HandlerRow

(* Whatever transaction a crash falls on, no plan is in the plan store     *)
(* without its evidence, and none is issued that the plan store does not   *)
(* hold.                                                                   *)
IssuanceMatchesPlans ==
    \A p \in Plan :
        /\ HasPlan(p) => issuance[p] # Unstaged
        /\ Issued(p) => HasPlan(p)

(* The plan in force was issued by the server, for the revision the        *)
(* replaced plan was issued for: a V2 never carries a change of the        *)
(* members' wishes into an execution that was started without it.          *)
CurrentIsTrusted ==
    \A p \in PlansOf(Shared, "CURRENT") :
        /\ Issued(p)
        /\ version[p] = 2 =>
              /\ Issued(parent[p])
              /\ issuance[p].binding = issuance[parent[p]].binding

(* A plan comes into force only while the revision it was made for is both *)
(* the newest and the published one, and the plan says what it says.       *)
AdoptedAsAgreed ==
    [][\A p \in Plan :
          status[p] # "CURRENT" /\ status'[p] = "CURRENT" =>
              /\ Issued(p)
              /\ BoundTo(p, saved) /\ saved = published
              /\ ContentOf[p] = content[saved]]_vars

(* The evidence of a plan is written once. Retries under another revision  *)
(* or with other evidence do not replace it, and an issued plan stays so.  *)
EvidenceIsImmutable ==
    [][\A p \in Plan :
          issuance[p] # Unstaged =>
              /\ issuance'[p].binding = issuance[p].binding
              /\ issuance'[p].evidence = issuance[p].evidence
              /\ issuance'[p].state \in {issuance[p].state, "ISSUED"}]_vars

(* A review that is shown as confirmed names an issued plan of its own     *)
(* revision, and no second review of the trip is ever confirmed.           *)
ReviewsAreIssued ==
    \A x \in Candidate \X Revision : review[x].state = "CONFIRMED" =>
        /\ review[x].plan \in Plan
        /\ Issued(review[x].plan)
        /\ BoundTo(review[x].plan, x[2])
        /\ \A y \in Candidate \X Revision : review[y].state = "CONFIRMED" => y = x

-----------------------------------------------------------------------------
(* What the documents say and the code does not do.                        *)

(* The members are done, and no other operation runs.                      *)
Settled == LoopFree /\ granted = {} /\ saved = published

(* "A retry must be able to finish issuing it": a plan that was registered *)
(* but not issued, by a call that broke off, is issued when the call is    *)
(* made again.                                                             *)
RetryCanIssue ==
    Settled =>
        \A p \in Plan :
            /\ status[p] = "PROPOSED"
            /\ ~Issued(p)
            /\ BoundTo(p, published)
            => MayGenerate(p) \/ MayConfirmReview(p) \/ MayGenerateV2(p) \/ MayAdjust(p)

(* "The binding has changed, please generate again", "generate a new       *)
(* adjustment candidate before deciding": when the members move on before  *)
(* a plan is decided, another one can be generated in its place.           *)
CanGenerateAgain ==
    Settled =>
        \A p \in Plan :
            status[p] = "PROPOSED" /\ Issued(p) /\ ~BoundTo(p, published) =>
                \E q \in Plan :
                    /\ Version(q) = Version(p)
                    /\ Registrable(q) \/ Decidable(q)
=============================================================================
