--------------------------- MODULE IssuanceProofs ---------------------------
(***************************************************************************)
(* Proofs about PlanIssuance, for any number of plans, candidates,         *)
(* operations and revisions, and for a crash between any two transactions. *)
(*                                                                         *)
(* IInv says what a running call may rely on after each of its steps, and  *)
(* how the rows of the trusted planning store relate to the plans and to   *)
(* the revisions. While a call runs the agreement does not move, so what   *)
(* it checked at its beginning still holds when it writes.                 *)
(***************************************************************************)
EXTENDS PlanIssuance, PlanVersionsProofs, SequenceTheorems

Decisions == {"CONFIRM", "ACCEPT", "REJECT"}

(* The running call puts a plan into the stores, or decides about one.     *)
Registering ==
    \/ handler.at \in {"staging", "registering", "issuing", "closing"}
    \/ handler.at = "admitting" /\ handler.goal = "REGISTER"

Deciding ==
    \/ handler.at = "deciding"
    \/ handler.at = "admitting" /\ handler.goal # "REGISTER"

(* A plan in the store is the only one with its version number.            *)
Rows ==
    /\ \A p \in Plan : HasPlan(p) => owner[p] = Shared /\ version[p] = Version(p)
    /\ \A p, q \in Plan : HasPlan(p) /\ HasPlan(q) /\ Version(p) = Version(q) => p = q

(* The evidence names a revision that says what the plan says.             *)
Bound ==
    \A p \in Plan : issuance[p] # Unstaged =>
        /\ issuance[p].binding \in 1 .. saved
        /\ ContentOf[p] = content[issuance[p].binding]

AdoptedIsIssued == \A p \in Plan : status[p] = "CURRENT" => Issued(p)

(* A V2 was registered on an issued V1 of the same revision.               *)
Replaces ==
    \A p \in Plan : HasPlan(p) /\ Version(p) = 2 =>
        /\ parent[p] \in Plan
        /\ Issued(parent[p])
        /\ issuance[p].binding = issuance[parent[p]].binding

(* What a call may rely on after each of its steps.                        *)
Handling ==
    /\ handler.at # "idle" =>
          handler.op \in Operations /\ handler.revision = published /\ saved = published
    /\ handler.at = "reviewing" => handler.candidate \in Candidate
    /\ Registering =>
          /\ handler.plan \in Plan /\ handler.goal = "REGISTER"
          /\ ContentOf[handler.plan] = content[published]
          /\ handler.candidate # None =>
                Kind[handler.plan] = "V1" /\ CandidateOf[handler.plan] = handler.candidate
    /\ Registering /\ handler.at \notin {"issuing", "closing"} /\ Kind[handler.plan] # "V1" =>
          \E b \in CurrentV1 : Issued(b) /\ BoundTo(b, published)
    /\ Registering /\ handler.at # "staging" =>
          issuance[handler.plan] # Unstaged /\ BoundTo(handler.plan, published)
    /\ handler.at \in {"issuing", "closing"} => HasPlan(handler.plan)
    /\ handler.at = "closing" => Issued(handler.plan) /\ handler.candidate # None
    /\ Deciding =>
          /\ handler.plan \in Plan /\ handler.goal \in Decisions
          /\ Issued(handler.plan) /\ BoundTo(handler.plan, published)

(* A confirmed review names the V1 made of its candidate.                  *)
Confirmed ==
    \A x \in Candidate \X Revision : review[x].state = "CONFIRMED" =>
        /\ review[x].plan \in Plan
        /\ Issued(review[x].plan) /\ BoundTo(review[x].plan, x[2])
        /\ Kind[review[x].plan] = "V1" /\ CandidateOf[review[x].plan] = x[1]

IInv ==
    /\ TypeOK
    /\ IssuanceMatchesPlans
    /\ Rows
    /\ Bound
    /\ AdoptedIsIssued
    /\ Replaces
    /\ Handling
    /\ Confirmed

-----------------------------------------------------------------------------
(* Initial states.                                                         *)

LEMMA InitIInv == Init => IInv
<1> SUFFICES ASSUME Init PROVE IInv
  OBVIOUS
<1> USE DEF Init, Revisions!Init
<1>1. \A p \in Plan : status[p] = "NONE" /\ issuance[p] = Unstaged
  BY DEF PlanInit
<1>2. 1 \in Revision /\ MaxRevision \in Nat
  BY PlansAreDigests DEF Revision
<1>3. /\ Unstaged \in IssuanceRow /\ NoReview \in ReviewRow /\ Idle \in HandlerRow
      /\ Unstaged.state = "NONE" /\ NoReview.state = "NONE" /\ Idle.at = "idle"
  BY <1>2 DEF Unstaged, NoReview, Idle, IssuanceRow, ReviewRow, HandlerRow
<1>4. TypeOK
  <2>1. PlanTypeOK
    BY DEF PlanInit, PlanTypeOK
  <2>2. content \in [1 .. saved -> Content]
    <3>1. 1 .. saved = {1}
      OBVIOUS
    <3> QED  BY <3>1
  <2> QED  BY <1>2, <1>3, <2>1, <2>2 DEF TypeOK
<1>5. /\ IssuanceMatchesPlans /\ Rows /\ Bound /\ AdoptedIsIssued /\ Replaces
  BY <1>1, <1>3 DEF IssuanceMatchesPlans, Rows, Bound, AdoptedIsIssued, Replaces, HasPlan, Issued
<1>6. Handling /\ Confirmed
  BY <1>3 DEF Handling, Confirmed, Registering, Deciding
<1> QED  BY <1>4, <1>5, <1>6 DEF IInv

-----------------------------------------------------------------------------
(* What a step leaves alone.                                               *)

(* The stores keep their invariants when no transaction touches them.      *)
LEMMA SameStores ==
    ASSUME IInv, UNCHANGED <<planVars, saved, published, content, issuance, review>>
    PROVE  /\ PlanTypeOK' /\ IssuanceMatchesPlans' /\ Rows' /\ Bound'
           /\ AdoptedIsIssued' /\ Replaces' /\ Confirmed'
  BY DEF IInv, TypeOK, PlanTypeOK, planVars, IssuanceMatchesPlans, Rows, Bound,
         AdoptedIsIssued, Replaces, Confirmed, HasPlan, Issued, BoundTo

(* A call goes on to its next step and keeps what it has read.             *)
LEMMA GoToFacts ==
    ASSUME TypeOK,
           NEW step \in {"admitting", "registering", "issuing", "closing", "deciding", "ending"},
           GoTo(step)
    PROVE  /\ handler' \in HandlerRow /\ handler'.at = step
           /\ handler'.op = handler.op /\ handler'.goal = handler.goal
           /\ handler'.plan = handler.plan /\ handler'.revision = handler.revision
           /\ handler'.evidence = handler.evidence /\ handler'.candidate = handler.candidate
  BY DEF GoTo, TypeOK, HandlerRow

-----------------------------------------------------------------------------
(* The transactions of the plan store.                                     *)

(* A registration adds one row.                                            *)
LEMMA InsertFacts ==
    ASSUME PlanTypeOK, NEW p \in Plan, NEW v, NEW b, NEW d, InsertProposed(Shared, p, v, b, d)
    PROVE  /\ ~HasPlan(p) /\ HasPlan(p)' /\ status'[p] = "PROPOSED"
           /\ owner'[p] = Shared /\ version'[p] = v /\ parent'[p] = b
           /\ \A q \in Plan : q # p => /\ status'[q] = status[q] /\ owner'[q] = owner[q]
                                       /\ version'[q] = version[q] /\ parent'[q] = parent[q]
                                       /\ HasPlan(q)' = HasPlan(q)
  BY DEF PlanTypeOK, InsertProposed, HasPlan

(* A decision adds none, and only the plan it is about can come into force. *)
LEMMA DecisionFacts ==
    ASSUME PlanTypeOK, NEW p \in Plan, Decision(Shared, p)
    PROVE  /\ UNCHANGED <<owner, version, parent, tasks>>
           /\ \A q \in Plan : HasPlan(q)' = HasPlan(q)
           /\ \A q \in Plan : status'[q] = "CURRENT" => status[q] = "CURRENT" \/ q = p
<1>1. UNCHANGED <<owner, version, parent, tasks>>
  BY DEF Decision, Confirm, ConfirmReplay, AcceptV2, AcceptReplay, RejectV2, RejectReplay,
         UnchangedRows
<1>2. CASE UNCHANGED status
  BY <1>1, <1>2 DEF HasPlan
<1>3. CASE \E s \in {"CURRENT", "REJECTED"} : status' = [status EXCEPT ![p] = s] /\ HasPlan(p)
  BY <1>1, <1>3 DEF HasPlan, PlanTypeOK
<1>4. CASE AcceptV2(Shared, p)
  <2>1. HasPlan(p) /\ HasPlan(parent[p])
    BY <1>4 DEF AcceptV2, IsV2Of, PlanMayBecome
  <2>2. status' = [status EXCEPT ![parent[p]] = "SUPERSEDED", ![p] = "CURRENT"]
    BY <1>4 DEF AcceptV2, Promote
  <2> QED  BY <1>1, <2>1, <2>2 DEF HasPlan, PlanTypeOK
<1> QED
  BY <1>2, <1>3, <1>4
     DEF Decision, Confirm, ConfirmReplay, AcceptReplay, RejectV2, RejectReplay, IsV2Of

-----------------------------------------------------------------------------
(* Between two calls: the members, and the start of the execution.         *)

LEMMA IdleHandling == ASSUME handler'.at = "idle" PROVE Handling'
  BY DEF Handling, Registering, Deciding

LEMMA LoopFreeIsIdle == LoopFree => handler.at = "idle"
  BY DEF LoopFree, Idle

(* A revision is added behind those that are there.                        *)
LEMMA AppendFacts ==
    ASSUME NEW S, NEW n \in Nat, NEW s \in [1 .. n -> S], NEW c \in S
    PROVE  /\ Append(s, c) \in [1 .. (n + 1) -> S]
           /\ \A r \in 1 .. n : Append(s, c)[r] = s[r]
<1>1. s \in Seq(S) /\ Len(s) = n
  OBVIOUS
<1>2. /\ Append(s, c) \in Seq(S) /\ Len(Append(s, c)) = n + 1
      /\ \A r \in 1 .. n : Append(s, c)[r] = s[r]
  BY <1>1, AppendProperties
<1> QED  BY <1>2, LenProperties

LEMMA SaveRevisionStep == ASSUME IInv, NEW c \in Content, SaveRevision(c) PROVE IInv'
<1>1. /\ saved \in Revision /\ saved < MaxRevision /\ saved \in Nat
      /\ saved' = saved + 1 /\ published' = published /\ saved = published
      /\ granted' = granted /\ content' = Append(content, c)
      /\ UNCHANGED <<planVars, issuance, review, handler>>
  BY DEF SaveRevision, Revisions!Save, IInv, TypeOK, Revision
<1>2. /\ content' \in [1 .. saved' -> Content]
      /\ \A r \in 1 .. saved : content'[r] = content[r]
  BY <1>1, AppendFacts DEF IInv, TypeOK
<1>3. TypeOK'
  <2>1. PlanTypeOK'
    BY <1>1 DEF IInv, TypeOK, PlanTypeOK, planVars
  <2>2. saved' \in Revision
    BY <1>1, PlansAreDigests DEF Revision
  <2> QED  BY <1>1, <1>2, <2>1, <2>2 DEF IInv, TypeOK
<1>4. Bound'
  BY <1>1, <1>2 DEF IInv, Bound
<1>5. Handling'
  BY <1>1, LoopFreeIsIdle, IdleHandling DEF SaveRevision
<1>6. IssuanceMatchesPlans' /\ Rows' /\ AdoptedIsIssued' /\ Replaces' /\ Confirmed'
  BY <1>1 DEF IInv, planVars, IssuanceMatchesPlans, Rows, AdoptedIsIssued, Replaces,
              Confirmed, HasPlan, Issued, BoundTo
<1> QED  BY <1>3, <1>4, <1>5, <1>6 DEF IInv

LEMMA PublishRevisionStep == ASSUME IInv, PublishRevision PROVE IInv'
<1>1. /\ saved' = saved /\ published' = saved /\ granted' = granted
      /\ UNCHANGED <<planVars, content, issuance, review, handler>>
  BY DEF PublishRevision, Revisions!Publish
<1>2. TypeOK'
  BY <1>1 DEF IInv, TypeOK, PlanTypeOK, planVars, Revision
<1>3. Handling'
  BY <1>1, LoopFreeIsIdle, IdleHandling DEF PublishRevision
<1>4. /\ IssuanceMatchesPlans' /\ Rows' /\ Bound' /\ AdoptedIsIssued' /\ Replaces'
      /\ Confirmed'
  BY <1>1 DEF IInv, planVars, IssuanceMatchesPlans, Rows, Bound, AdoptedIsIssued, Replaces,
              Confirmed, HasPlan, Issued, BoundTo
<1> QED  BY <1>2, <1>3, <1>4 DEF IInv

(* A lease is granted to another operation, or ends.                       *)
LEMMA LeaseStep ==
    ASSUME IInv, NEW op \in Operations, OtherOperation(op) \/ LeaseEnds(op) PROVE IInv'
<1>1. /\ granted' \subseteq Operations
      /\ UNCHANGED <<planVars, saved, published, content, issuance, review, handler>>
  BY DEF OtherOperation, LeaseEnds, Revisions!Grant, Revisions!End
<1>2. TypeOK'
  BY <1>1, SameStores DEF IInv, TypeOK
<1>3. Handling'
  BY <1>1 DEF IInv, Handling, Registering, Deciding, CurrentV1, PlansOf, planVars, HasPlan,
              Issued, BoundTo
<1> QED  BY <1>1, <1>2, <1>3, SameStores DEF IInv

LEMMA StartStep == ASSUME IInv, Start PROVE IInv'
<1>1. StartExecution(Shared) /\ UNCHANGED <<agreement, issuance, review, handler>>
  BY DEF Start
<1>2. Shared \in Trip
  BY PlansAreDigests
<1>3. UNCHANGED <<status, owner, version, parent, tasks>>
  BY <1>1 DEF StartExecution, UnchangedRows
<1>4. PlanTypeOK'
  <2>1. {"CONFIRMED", "EXECUTING"} \subseteq TripStatus
    BY DEF TripStatus
  <2> QED
    BY <1>1, <1>2, <1>3, <2>1, UpdateTripType DEF StartExecution, IInv, TypeOK, PlanTypeOK
<1>5. TypeOK'
  BY <1>1, <1>4 DEF IInv, TypeOK, agreement
<1>6. Handling'
  BY <1>1, LoopFreeIsIdle, IdleHandling DEF Start
<1>7. /\ IssuanceMatchesPlans' /\ Rows' /\ Bound' /\ AdoptedIsIssued' /\ Replaces'
      /\ Confirmed'
  BY <1>1, <1>3 DEF IInv, IssuanceMatchesPlans, Rows, Bound, AdoptedIsIssued, Replaces,
                    Confirmed, HasPlan, Issued, BoundTo, agreement
<1> QED  BY <1>5, <1>6, <1>7 DEF IInv

-----------------------------------------------------------------------------
(* The beginning of a call.                                                *)

LEMMA BeginFacts ==
    ASSUME IInv, NEW op \in Operations, NEW at \in {"reviewing", "staging", "admitting"},
           NEW goal \in {"REVIEW", "REGISTER", "CONFIRM", "ACCEPT", "REJECT"},
           NEW p \in Plan \cup {None}, NEW e \in Evidence \cup {None},
           NEW c \in Candidate \cup {None}, Begin(op, at, goal, p, e, c)
    PROVE  /\ TypeOK' /\ IssuanceMatchesPlans' /\ Rows' /\ Bound' /\ AdoptedIsIssued'
           /\ Replaces' /\ Confirmed'
           /\ saved = published
           /\ UNCHANGED <<planVars, saved, published, content, issuance, review>>
           /\ handler' = [at |-> at, op |-> op, goal |-> goal, plan |-> p,
                          revision |-> published, evidence |-> e, candidate |-> c]
<1>1. /\ saved = published /\ granted' \subseteq Operations
      /\ UNCHANGED <<planVars, saved, published, content, issuance, review>>
      /\ handler' = [at |-> at, op |-> op, goal |-> goal, plan |-> p,
                     revision |-> published, evidence |-> e, candidate |-> c]
  BY DEF Begin, Revisions!Grant
<1>2. published \in 0 .. MaxRevision
  BY PlansAreDigests DEF IInv, TypeOK, Revision
<1>3. handler' \in HandlerRow
  BY <1>1, <1>2 DEF HandlerRow
<1>4. TypeOK'
  BY <1>1, <1>3, SameStores DEF IInv, TypeOK
<1> QED  BY <1>1, <1>4, SameStores

LEMMA GenerateReviewStep ==
    ASSUME IInv, NEW op \in Operations, NEW c \in Candidate, GenerateReview(op, c)
    PROVE  IInv'
<1>1. Begin(op, "reviewing", "REVIEW", None, None, c)
  BY DEF GenerateReview
<1>2. Handling'
  BY <1>1, BeginFacts DEF Handling, Registering, Deciding
<1> QED  BY <1>1, <1>2, BeginFacts DEF IInv

(* A call that is to register the plan p.                                  *)
LEMMA BeginRegistering ==
    ASSUME IInv, NEW op \in Operations, NEW p \in Plan, NEW e \in Evidence \cup {None},
           NEW c \in Candidate \cup {None}, Begin(op, "staging", "REGISTER", p, e, c),
           FitsRevision(p), c # None => Kind[p] = "V1" /\ CandidateOf[p] = c,
           Kind[p] # "V1" => \E b \in CurrentV1 : Issued(b) /\ BoundTo(b, published)
    PROVE  IInv'
<1>1. /\ saved = published
      /\ UNCHANGED <<planVars, saved, published, content, issuance, review>>
      /\ handler' = [at |-> "staging", op |-> op, goal |-> "REGISTER", plan |-> p,
                     revision |-> published, evidence |-> e, candidate |-> c]
  BY BeginFacts
<1>2. CurrentV1' = CurrentV1 /\ \A b \in Plan : Issued(b)' = Issued(b)
      /\ BoundTo(b, published)' = BoundTo(b, published)
  BY <1>1 DEF CurrentV1, PlansOf, planVars, Issued, BoundTo
<1>3. CurrentV1 \subseteq Plan
  BY DEF CurrentV1, PlansOf
<1>4. Handling'
  BY <1>1, <1>2, <1>3 DEF Handling, Registering, Deciding, FitsRevision
<1> QED  BY <1>4, BeginFacts DEF IInv

LEMMA GenerateV1Step ==
    ASSUME IInv, NEW op \in Operations, NEW p \in Plan, GenerateV1(op, p)
    PROVE  IInv'
  BY BeginRegistering DEF GenerateV1, MayGenerate

LEMMA ConfirmReviewStep ==
    ASSUME IInv, NEW op \in Operations, NEW p \in Plan, ConfirmReview(op, p)
    PROVE  IInv'
<1>1. CandidateOf[p] \in Candidate \cup {None}
  BY PlansAreDigests
<1> QED  BY <1>1, BeginRegistering DEF ConfirmReview, MayConfirmReview

LEMMA GenerateV2Step ==
    ASSUME IInv, NEW op \in Operations, NEW p \in Plan, NEW e \in Evidence, GenerateV2(op, p, e)
    PROVE  IInv'
  BY BeginRegistering DEF GenerateV2, MayGenerateV2, MayReplan

LEMMA GenerateAdjustmentStep ==
    ASSUME IInv, NEW op \in Operations, NEW p \in Plan, GenerateAdjustment(op, p)
    PROVE  IInv'
  BY BeginRegistering DEF GenerateAdjustment, MayAdjust, MayReplan

LEMMA BeginDecisionStep ==
    ASSUME IInv, NEW op \in Operations, NEW p \in Plan, NEW goal \in Decisions,
           BeginDecision(op, p, goal)
    PROVE  IInv'
<1>1. /\ Begin(op, "admitting", goal, p, None, None)
      /\ Issued(p) /\ BoundTo(p, published)
      /\ goal \in {"CONFIRM", "ACCEPT", "REJECT"}
  BY DEF BeginDecision, Decidable, Decisions
<1>2. /\ saved = published
      /\ UNCHANGED <<planVars, saved, published, content, issuance, review>>
      /\ handler' = [at |-> "admitting", op |-> op, goal |-> goal, plan |-> p,
                     revision |-> published, evidence |-> None, candidate |-> None]
  BY <1>1, BeginFacts
<1>3. Handling'
  BY <1>1, <1>2 DEF Handling, Registering, Deciding, Issued, BoundTo, Decisions
<1> QED  BY <1>1, <1>3, BeginFacts DEF IInv

-----------------------------------------------------------------------------
(* Its steps.                                                              *)

(* What every step of a call begins with.                                  *)
LEMMA StepFacts ==
    ASSUME IInv, handler.at # "idle"
    PROVE  /\ handler.op \in Operations /\ handler.revision = published /\ saved = published
           /\ published \in Revision /\ published \in Nat /\ published \in 1 .. saved
  BY PlansAreDigests DEF IInv, Handling, TypeOK, Revision

(* The call has nothing left to do but to give the lease back.             *)
LEMMA EndingHandling ==
    ASSUME IInv, handler.at # "idle", GoTo("ending"), UNCHANGED agreement
    PROVE  Handling' /\ handler' \in HandlerRow
<1>1. handler' \in HandlerRow /\ handler'.at = "ending"
      /\ handler'.op = handler.op /\ handler'.revision = handler.revision
  BY GoToFacts DEF IInv
<1> QED  BY <1>1, StepFacts DEF Handling, Registering, Deciding, agreement

LEMMA StageReviewStep == ASSUME IInv, StageReview PROVE IInv'
<1>1. /\ handler.at = "reviewing" /\ GoTo("ending")
      /\ UNCHANGED <<planVars, agreement, issuance>>
      /\ review' = [review EXCEPT ![<<handler.candidate, handler.revision>>].state =
                       IF @ = "NONE" THEN "PENDING" ELSE @]
  BY DEF StageReview, At
<1>2. <<handler.candidate, handler.revision>> \in Candidate \X Revision
  BY <1>1, StepFacts DEF IInv, Handling
<1>3. /\ review' \in [Candidate \X Revision -> ReviewRow]
      /\ \A x \in Candidate \X Revision : review'[x].state = "CONFIRMED" =>
            review[x].state = "CONFIRMED" /\ review'[x].plan = review[x].plan
  BY <1>1, <1>2 DEF IInv, TypeOK, ReviewRow
<1>4. TypeOK'
  BY <1>1, <1>3, EndingHandling DEF IInv, TypeOK, PlanTypeOK, planVars, agreement
<1>5. Confirmed'
  BY <1>1, <1>3 DEF IInv, Confirmed, Issued, BoundTo
<1>6. IssuanceMatchesPlans' /\ Rows' /\ Bound' /\ AdoptedIsIssued' /\ Replaces'
  BY <1>1 DEF IInv, planVars, agreement, IssuanceMatchesPlans, Rows, Bound,
              AdoptedIsIssued, Replaces, HasPlan, Issued
<1>7. Handling'
  BY <1>1, EndingHandling
<1> QED  BY <1>4, <1>5, <1>6, <1>7 DEF IInv

(* The evidence of the plan is staged now, or was before.                  *)
LEMMA StageStep == ASSUME IInv, Stage PROVE IInv'
<1> DEFINE p == handler.plan
<1>1. /\ handler.at = "staging" /\ UNCHANGED <<planVars, agreement, review>>
      /\ \/ /\ issuance[p] = Unstaged
            /\ issuance' = [issuance EXCEPT ![p] = StageRow]
            /\ GoTo("admitting")
         \/ /\ issuance[p] # Unstaged
            /\ UNCHANGED issuance
            /\ (SameEvidence(p) /\ GoTo("admitting")) \/ GoTo("ending")
  BY DEF Stage, At
<1>2. /\ p \in Plan /\ handler.goal = "REGISTER" /\ ContentOf[p] = content[published]
      /\ handler.candidate # None => Kind[p] = "V1" /\ CandidateOf[p] = handler.candidate
      /\ Kind[p] # "V1" => \E b \in CurrentV1 : Issued(b) /\ BoundTo(b, published)
  BY <1>1 DEF IInv, Handling, Registering
<1>3. CASE UNCHANGED issuance /\ GoTo("ending")
  <2>1. Handling' /\ handler' \in HandlerRow
    BY <1>1, <1>3, EndingHandling
  <2>2. UNCHANGED <<planVars, saved, published, content, issuance, review>>
    BY <1>1, <1>3 DEF agreement
  <2>3. TypeOK'
    BY <1>1, <1>3, <2>1, <2>2, SameStores DEF IInv, TypeOK, agreement
  <2> QED  BY <2>1, <2>2, <2>3, SameStores DEF IInv
<1>4. ASSUME GoTo("admitting"), issuance' \in [Plan -> IssuanceRow],
             \A q \in Plan : q # p => issuance'[q] = issuance[q],
             issuance'[p] # Unstaged, issuance'[p].binding = published,
             Issued(p) => issuance'[p] = issuance[p],
             issuance'[p].state = "ISSUED" => Issued(p)
      PROVE  IInv'
  <2>1. /\ handler' \in HandlerRow /\ handler'.at = "admitting"
        /\ handler'.op = handler.op /\ handler'.goal = handler.goal
        /\ handler'.plan = handler.plan /\ handler'.revision = handler.revision
        /\ handler'.candidate = handler.candidate
    BY <1>4, GoToFacts DEF IInv
  <2>2. \A q \in Plan : Issued(q)' = Issued(q)
                        /\ (Issued(q) => issuance'[q].binding = issuance[q].binding)
    BY <1>4 DEF Issued
  <2>3. TypeOK'
    BY <1>1, <1>4, <2>1 DEF IInv, TypeOK, PlanTypeOK, planVars, agreement
  <2>4. IssuanceMatchesPlans' /\ Rows' /\ AdoptedIsIssued'
    BY <1>1, <1>2, <1>4, <2>2
       DEF IInv, planVars, IssuanceMatchesPlans, Rows, AdoptedIsIssued, HasPlan
  <2>5. Bound'
    BY <1>1, <1>2, <1>4, StepFacts DEF IInv, Bound, agreement
  <2>6. Replaces'
    <3>1. \A q \in Plan : HasPlan(q) => issuance'[q].binding = issuance[q].binding
      BY <1>1, <1>2, <1>4, StepFacts
         DEF IInv, IssuanceMatchesPlans, Handling, Registering
    <3> QED  BY <1>1, <2>2, <3>1 DEF IInv, Replaces, planVars, HasPlan
  <2>7. Confirmed'
    BY <1>1, <2>2 DEF IInv, Confirmed, BoundTo
  <2>8. CurrentV1' = CurrentV1 /\ CurrentV1 \subseteq Plan
    BY <1>1 DEF CurrentV1, PlansOf, planVars
  <2>9. Handling'
    BY <1>1, <1>2, <1>4, <2>1, <2>2, <2>8, StepFacts
       DEF Handling, Registering, Deciding, agreement, BoundTo
  <2> QED  BY <2>3, <2>4, <2>5, <2>6, <2>7, <2>9 DEF IInv
<1>5. CASE issuance[p] = Unstaged /\ issuance' = [issuance EXCEPT ![p] = StageRow]
           /\ GoTo("admitting")
  <2>1. StageRow \in IssuanceRow /\ StageRow # Unstaged
        /\ StageRow.binding = published /\ StageRow.state = "VALIDATED"
    BY <1>1, StepFacts DEF StageRow, IssuanceRow, Unstaged, IInv, TypeOK, HandlerRow
  <2>2. ~Issued(p)
    BY <1>5 DEF Issued, Unstaged
  <2> QED  BY <1>2, <1>4, <1>5, <2>1, <2>2 DEF IInv, TypeOK
<1>6. CASE issuance[p] # Unstaged /\ UNCHANGED issuance /\ SameEvidence(p)
           /\ GoTo("admitting")
  BY <1>1, <1>4, <1>6, StepFacts DEF IInv, TypeOK, SameEvidence, Issued
<1> QED  BY <1>1, <1>3, <1>5, <1>6

(* The permit is looked at; the stores are not touched.                    *)
LEMMA AdmitStep == ASSUME IInv, Admit PROVE IInv'
<1>1. /\ handler.at = "admitting"
      /\ UNCHANGED <<planVars, saved, published, granted, content, issuance, review>>
      /\ \/ GoTo("ending")
         \/ handler.goal = "REGISTER" /\ GoTo("registering")
         \/ handler.goal # "REGISTER" /\ GoTo("deciding")
  BY DEF Admit, At, agreement
<1>2. Handling' /\ handler' \in HandlerRow
  <2>1. CASE GoTo("ending")
    BY <1>1, <2>1, EndingHandling DEF agreement
  <2>2. ASSUME NEW step \in {"registering", "deciding"}, GoTo(step),
               step = "registering" <=> handler.goal = "REGISTER"
        PROVE  Handling' /\ handler' \in HandlerRow
    <3>1. /\ handler' \in HandlerRow /\ handler'.at = step
          /\ handler'.op = handler.op /\ handler'.goal = handler.goal
          /\ handler'.plan = handler.plan /\ handler'.revision = handler.revision
          /\ handler'.candidate = handler.candidate
      BY <2>2, GoToFacts DEF IInv
    <3>2. CurrentV1' = CurrentV1 /\ CurrentV1 \subseteq Plan
      BY <1>1 DEF CurrentV1, PlansOf, planVars
    <3> QED
      BY <1>1, <2>2, <3>1, <3>2, StepFacts
         DEF IInv, Handling, Registering, Deciding, Issued, BoundTo, Decisions
  <2> QED  BY <1>1, <2>1, <2>2
<1>3. TypeOK'
  BY <1>1, <1>2, SameStores DEF IInv, TypeOK
<1> QED  BY <1>1, <1>2, <1>3, SameStores DEF IInv

(* A new plan is the only one with its version, and a V2 replaces the V1   *)
(* the call found in force when it began.                                  *)
LEMMA RegistrationOK ==
    ASSUME IInv, NEW p \in Plan, handler.plan = p, handler.at = "registering",
           Registration(p), UNCHANGED <<agreement, issuance, review>>
    PROVE  /\ PlanTypeOK' /\ IssuanceMatchesPlans' /\ Rows' /\ AdoptedIsIssued' /\ Replaces'
           /\ status'[p] = "PROPOSED"
<1>1. /\ p \in Plan /\ issuance[p] # Unstaged /\ BoundTo(p, published)
      /\ Kind[p] # "V1" => \E x \in CurrentV1 : Issued(x) /\ BoundTo(x, published)
  BY DEF IInv, Handling, Registering
<1>2. Shared \in Trip /\ ItineraryOf[p] \in Itinerary
  BY <1>1, PlansAreDigests
<1>3. PICK b \in Plan \cup {None} :
         /\ Kind[p] = "V1" => b = None
         /\ Kind[p] # "V1" => b \in CurrentV1 /\ RegisterV2(Shared, p, b, ItineraryOf[p])
  BY DEF Registration, CurrentV1, PlansOf
<1>4. InsertProposed(Shared, p, Version(p), b, ItineraryOf[p])
  BY <1>3 DEF Registration, RegisterV1, RegisterV2, Version
<1>5. PlanTypeOK'
  <2>1. PlanTypeOK
    BY DEF IInv, TypeOK
  <2>2. RegisterV1(Shared, p, ItineraryOf[p])
        \/ \E x \in Plan : RegisterV2(Shared, p, x, ItineraryOf[p])
    BY <1>3 DEF Registration, CurrentV1, PlansOf
  <2> QED  BY <1>2, <2>1, <2>2, RegisterTypes
<1>6. /\ ~HasPlan(p) /\ HasPlan(p)' /\ status'[p] = "PROPOSED"
      /\ owner'[p] = Shared /\ version'[p] = Version(p) /\ parent'[p] = b
      /\ \A q \in Plan : q # p => /\ status'[q] = status[q] /\ owner'[q] = owner[q]
                                  /\ version'[q] = version[q] /\ parent'[q] = parent[q]
                                  /\ HasPlan(q)' = HasPlan(q)
  BY <1>1, <1>4, InsertFacts DEF IInv, TypeOK
<1>7. \A q \in Plan : HasPlan(q) => Version(q) # Version(p)
  BY <1>4 DEF InsertProposed, VersionTaken, IInv, Rows
<1>8. Rows'
  BY <1>1, <1>6, <1>7 DEF IInv, Rows, Version
<1>9. IssuanceMatchesPlans' /\ AdoptedIsIssued'
  BY <1>1, <1>6 DEF IInv, IssuanceMatchesPlans, AdoptedIsIssued, Issued
<1>10. Kind[p] # "V1" => Issued(b) /\ BoundTo(b, published)
  <2>1. \A x \in CurrentV1 : x \in Plan /\ HasPlan(x) /\ Version(x) = 1
    BY DEF CurrentV1, PlansOf, HasPlan, IInv, Rows
  <2>2. \A x, y \in CurrentV1 : x = y
    BY <2>1 DEF IInv, Rows
  <2> QED  BY <1>1, <1>3, <2>2
<1>11. Version(p) = 2 => Kind[p] # "V1"
  BY DEF Version
<1>12. Replaces'
  <2> SUFFICES ASSUME NEW q \in Plan, HasPlan(q)', Version(q) = 2
               PROVE  /\ parent'[q] \in Plan /\ Issued(parent'[q])
                      /\ issuance[q].binding = issuance[parent'[q]].binding
    BY DEF Replaces, Version, Issued
  <2>1. CASE q = p
    BY <1>1, <1>3, <1>6, <1>10, <1>11, <2>1 DEF BoundTo, CurrentV1, PlansOf
  <2>2. CASE q # p
    BY <1>6, <2>2 DEF IInv, Replaces
  <2> QED  BY <2>1, <2>2
<1> QED  BY <1>5, <1>6, <1>8, <1>9, <1>12

LEMMA RegisterStep == ASSUME IInv, Register PROVE IInv'
<1>1. /\ handler.at = "registering" /\ UNCHANGED <<agreement, issuance, review>>
      /\ \/ Registration(handler.plan) /\ GoTo("issuing")
         \/ UNCHANGED planVars /\ HasPlan(handler.plan) /\ GoTo("issuing")
         \/ UNCHANGED planVars /\ GoTo("ending")
  BY DEF Register, At, Recoverable
<1>2. UNCHANGED <<saved, published, granted, content, issuance, review>>
  BY <1>1 DEF agreement
<1>3. /\ PlanTypeOK' /\ IssuanceMatchesPlans' /\ Rows' /\ AdoptedIsIssued' /\ Replaces'
      /\ GoTo("issuing") => status'[handler.plan] # "NONE"
  <2>1. CASE Registration(handler.plan)
    BY <1>1, <2>1, RegistrationOK DEF IInv, Handling, Registering
  <2>2. CASE UNCHANGED planVars /\ (HasPlan(handler.plan) \/ GoTo("ending"))
    <3>1. GoTo("ending") => ~GoTo("issuing")
      BY GoToFacts DEF IInv
    <3>2. HasPlan(handler.plan) => status'[handler.plan] # "NONE"
      BY <2>2 DEF HasPlan, planVars
    <3>3. UNCHANGED <<planVars, saved, published, content, issuance, review>>
      BY <1>2, <2>2
    <3> QED  BY <2>2, <3>1, <3>2, <3>3, SameStores
  <2> QED  BY <1>1, <2>1, <2>2
<1>4. Bound' /\ Confirmed'
  BY <1>2 DEF IInv, Bound, Confirmed, Issued, BoundTo
<1>5. Handling' /\ handler' \in HandlerRow
  <2>1. CASE GoTo("ending")
    BY <1>1, <2>1, EndingHandling
  <2>2. CASE GoTo("issuing")
    <3>1. /\ handler' \in HandlerRow /\ handler'.at = "issuing"
          /\ handler'.op = handler.op /\ handler'.goal = handler.goal
          /\ handler'.plan = handler.plan /\ handler'.revision = handler.revision
          /\ handler'.candidate = handler.candidate
      BY <2>2, GoToFacts DEF IInv
    <3>2. /\ handler.plan \in Plan /\ issuance[handler.plan] # Unstaged
          /\ BoundTo(handler.plan, published) /\ handler.goal = "REGISTER"
          /\ ContentOf[handler.plan] = content[published]
          /\ handler.candidate # None =>
                Kind[handler.plan] = "V1" /\ CandidateOf[handler.plan] = handler.candidate
      BY <1>1 DEF IInv, Handling, Registering
    <3>3. status'[handler'.plan] # "NONE"
      BY <1>3, <2>2, <3>1
    <3>4. handler'.op \in Operations /\ handler'.revision = published' /\ saved' = published'
      BY <1>1, <1>2, <3>1, StepFacts
    <3>5. /\ issuance'[handler'.plan] # Unstaged
          /\ issuance'[handler'.plan].binding = published'
          /\ ContentOf[handler'.plan] = content'[published']
      BY <1>2, <3>1, <3>2 DEF BoundTo
    <3> QED
      BY <3>1, <3>2, <3>3, <3>4, <3>5
         DEF Handling, Registering, Deciding, BoundTo, HasPlan
  <2> QED  BY <1>1, <2>1, <2>2
<1>6. TypeOK'
  BY <1>2, <1>3, <1>5 DEF IInv, TypeOK
<1> QED  BY <1>3, <1>4, <1>5, <1>6 DEF IInv

(* The plan is in the store when it is issued.                             *)
LEMMA MarkIssuedStep == ASSUME IInv, MarkIssued PROVE IInv'
<1> DEFINE p == handler.plan
<1>1. /\ handler.at = "issuing" /\ UNCHANGED <<planVars, agreement, review>>
      /\ issuance' = [issuance EXCEPT ![p].state = "ISSUED"]
      /\ \/ GoTo("ending")
         \/ GoTo("closing") /\ handler.candidate # None
  BY DEF MarkIssued, At
<1>2. /\ p \in Plan /\ issuance[p] # Unstaged /\ BoundTo(p, published) /\ HasPlan(p)
      /\ handler.goal = "REGISTER" /\ ContentOf[p] = content[published]
      /\ handler.candidate # None => Kind[p] = "V1" /\ CandidateOf[p] = handler.candidate
  BY <1>1 DEF IInv, Handling, Registering
<1>3. /\ issuance' \in [Plan -> IssuanceRow]
      /\ \A q \in Plan : issuance'[q].binding = issuance[q].binding
                         /\ (q # p => issuance'[q] = issuance[q])
      /\ issuance'[p].state = "ISSUED"
  BY <1>1, <1>2 DEF IInv, TypeOK, IssuanceRow
<1>4. issuance'[p] # Unstaged
  BY <1>3 DEF Unstaged
<1>5. \A q \in Plan : Issued(q)' <=> Issued(q) \/ q = p
  BY <1>2, <1>3 DEF Issued
<1>6. Handling' /\ handler' \in HandlerRow
  <2>1. CASE GoTo("ending")
    BY <1>1, <2>1, EndingHandling
  <2>2. CASE GoTo("closing") /\ handler.candidate # None
    <3>1. /\ handler' \in HandlerRow /\ handler'.at = "closing"
          /\ handler'.op = handler.op /\ handler'.goal = handler.goal
          /\ handler'.plan = handler.plan /\ handler'.revision = handler.revision
          /\ handler'.candidate = handler.candidate
      BY <2>2, GoToFacts DEF IInv
    <3>2. handler'.op \in Operations /\ handler'.revision = published' /\ saved' = published'
      BY <1>1, <3>1, StepFacts DEF agreement
    <3>3. status'[handler'.plan] # "NONE" /\ issuance'[handler'.plan].binding = published'
      BY <1>1, <1>2, <1>3, <3>1 DEF planVars, HasPlan, BoundTo, agreement
    <3> QED
      BY <1>1, <1>2, <1>3, <1>4, <2>2, <3>1, <3>2, <3>3
         DEF Handling, Registering, Deciding, BoundTo, HasPlan, Issued, agreement
  <2> QED  BY <1>1, <2>1, <2>2
<1>7. TypeOK'
  BY <1>1, <1>3, <1>6 DEF IInv, TypeOK, PlanTypeOK, planVars, agreement
<1>8. IssuanceMatchesPlans' /\ Rows' /\ AdoptedIsIssued'
  BY <1>1, <1>2, <1>3, <1>4, <1>5
     DEF IInv, planVars, IssuanceMatchesPlans, Rows, AdoptedIsIssued, HasPlan
<1>9. Bound'
  BY <1>1, <1>2, <1>3 DEF IInv, Bound, agreement
<1>10. Replaces'
  BY <1>1, <1>3, <1>5 DEF IInv, Replaces, planVars, HasPlan
<1>11. Confirmed'
  BY <1>1, <1>3, <1>5 DEF IInv, Confirmed, BoundTo
<1> QED  BY <1>6, <1>7, <1>8, <1>9, <1>10, <1>11 DEF IInv

(* The review that is closed names the plan this call has issued.          *)
LEMMA CloseReviewStep == ASSUME IInv, CloseReview PROVE IInv'
<1>1. /\ handler.at = "closing" /\ GoTo("ending")
      /\ UNCHANGED <<planVars, agreement, issuance>>
      /\ review' = [review EXCEPT ![<<handler.candidate, handler.revision>>] =
                       [state |-> "CONFIRMED", plan |-> handler.plan]]
  BY DEF CloseReview, At
<1>2. /\ handler.plan \in Plan /\ Issued(handler.plan) /\ BoundTo(handler.plan, published)
      /\ handler.candidate # None
      /\ Kind[handler.plan] = "V1" /\ CandidateOf[handler.plan] = handler.candidate
      /\ handler.revision = published /\ published \in Revision
  BY <1>1, StepFacts DEF IInv, Handling, Registering
<1>3. <<handler.candidate, handler.revision>> \in Candidate \X Revision
  BY <1>2 DEF IInv, TypeOK, HandlerRow
<1>4. [state |-> "CONFIRMED", plan |-> handler.plan] \in ReviewRow
  BY <1>2 DEF ReviewRow
<1>5. TypeOK'
  BY <1>1, <1>3, <1>4, EndingHandling DEF IInv, TypeOK, PlanTypeOK, planVars, agreement
<1>6. Confirmed'
  <2> SUFFICES ASSUME NEW x \in Candidate \X Revision, review'[x].state = "CONFIRMED"
               PROVE  /\ review'[x].plan \in Plan
                      /\ Issued(review'[x].plan) /\ BoundTo(review'[x].plan, x[2])
                      /\ Kind[review'[x].plan] = "V1" /\ CandidateOf[review'[x].plan] = x[1]
    BY <1>1 DEF Confirmed, Issued, BoundTo
  <2>1. CASE x = <<handler.candidate, handler.revision>>
    BY <1>1, <1>2, <1>3, <2>1 DEF IInv, TypeOK
  <2>2. CASE x # <<handler.candidate, handler.revision>>
    <3>1. review'[x] = review[x]
      BY <1>1, <1>3, <2>2 DEF IInv, TypeOK
    <3> QED  BY <3>1 DEF IInv, Confirmed
  <2> QED  BY <2>1, <2>2
<1>7. IssuanceMatchesPlans' /\ Rows' /\ Bound' /\ AdoptedIsIssued' /\ Replaces'
  BY <1>1 DEF IInv, planVars, agreement, IssuanceMatchesPlans, Rows, Bound,
              AdoptedIsIssued, Replaces, HasPlan, Issued
<1>8. Handling'
  BY <1>1, EndingHandling
<1> QED  BY <1>5, <1>6, <1>7, <1>8 DEF IInv

(* The plan that comes into force was issued before the call began.        *)
LEMMA DecideStep == ASSUME IInv, Decide PROVE IInv'
<1> DEFINE p == handler.plan
<1>1. /\ handler.at = "deciding" /\ GoTo("ending") /\ UNCHANGED <<agreement, issuance, review>>
      /\ Transition(p) \/ UNCHANGED planVars
  BY DEF Decide, At
<1>2. p \in Plan /\ handler.goal \in Decisions /\ Issued(p)
  BY <1>1 DEF IInv, Handling, Deciding
<1>3. Handling' /\ handler' \in HandlerRow
  BY <1>1, EndingHandling
<1>4. UNCHANGED <<saved, published, granted, content, issuance, review>>
  BY <1>1 DEF agreement
<1>5. CASE UNCHANGED planVars
  <2>1. UNCHANGED <<planVars, saved, published, content, issuance, review>>
    BY <1>4, <1>5
  <2>2. TypeOK'
    BY <1>3, <1>4, <2>1, SameStores DEF IInv, TypeOK
  <2> QED  BY <1>3, <2>1, <2>2, SameStores DEF IInv
<1>6. CASE Transition(p)
  <2>1. PlanTypeOK /\ Shared \in Trip
    BY PlansAreDigests DEF IInv, TypeOK
  <2>2. Decision(Shared, p)
    BY <1>2, <1>6 DEF Transition, Decision, Decisions
  <2>3. PlanTypeOK'
    BY <1>2, <2>1, <2>2, DecisionTypes
  <2>4. /\ UNCHANGED <<owner, version, parent, tasks>>
        /\ \A q \in Plan : HasPlan(q)' = HasPlan(q)
        /\ \A q \in Plan : status'[q] = "CURRENT" => status[q] = "CURRENT" \/ q = p
    BY <1>2, <2>1, <2>2, DecisionFacts
  <2>5. TypeOK'
    BY <1>3, <1>4, <2>3 DEF IInv, TypeOK
  <2>6. IssuanceMatchesPlans' /\ Rows' /\ AdoptedIsIssued' /\ Replaces'
    BY <1>2, <1>4, <2>4
       DEF IInv, IssuanceMatchesPlans, Rows, AdoptedIsIssued, Replaces, Issued
  <2>7. Bound' /\ Confirmed'
    BY <1>4 DEF IInv, Bound, Confirmed, Issued, BoundTo
  <2> QED  BY <1>3, <2>5, <2>6, <2>7 DEF IInv
<1> QED  BY <1>1, <1>5, <1>6

(* The call ends, or the process dies in it: the stores stay as they are.  *)
LEMMA EndStep == ASSUME IInv, Finish \/ Crash PROVE IInv'
<1>1. /\ handler' = Idle /\ granted' \subseteq granted
      /\ UNCHANGED <<planVars, saved, published, content, issuance, review>>
  BY DEF Finish, Crash, agreement
<1>2. Idle \in HandlerRow /\ Idle.at = "idle"
  BY PlansAreDigests DEF Idle, HandlerRow
<1>3. TypeOK'
  BY <1>1, <1>2, SameStores DEF IInv, TypeOK
<1>4. Handling'
  BY <1>1, <1>2, IdleHandling
<1> QED  BY <1>1, <1>3, <1>4, SameStores DEF IInv

LEMMA NextIInv == IInv /\ [Next]_vars => IInv'
<1> SUFFICES ASSUME IInv, [Next]_vars PROVE IInv'
  OBVIOUS
<1>1. CASE Members
  BY <1>1, SaveRevisionStep, PublishRevisionStep, LeaseStep DEF Members
<1>2. CASE \E op \in Operations : Calls(op)
  <2>1. PICK op \in Operations : Calls(op)
    BY <1>2
  <2>2. CASE \E c \in Candidate : GenerateReview(op, c)
    BY <2>2, GenerateReviewStep
  <2>3. CASE \E p \in Plan : GenerateV1(op, p) \/ ConfirmReview(op, p)
    BY <2>3, GenerateV1Step, ConfirmReviewStep
  <2>4. CASE \E p \in Plan : (\E e \in Evidence : GenerateV2(op, p, e))
                             \/ GenerateAdjustment(op, p)
    BY <2>4, GenerateV2Step, GenerateAdjustmentStep
  <2>5. CASE \E p \in Plan : \E goal \in {"CONFIRM", "ACCEPT", "REJECT"} :
                BeginDecision(op, p, goal)
    BY <2>5, BeginDecisionStep DEF Decisions
  <2> QED  BY <2>1, <2>2, <2>3, <2>4, <2>5 DEF Calls
<1>3. CASE Steps
  BY <1>3, StageReviewStep, StageStep, AdmitStep, RegisterStep, MarkIssuedStep,
     CloseReviewStep, DecideStep, EndStep DEF Steps
<1>4. CASE Start
  BY <1>4, StartStep
<1>5. CASE UNCHANGED vars
  <2>1. UNCHANGED <<planVars, saved, published, content, issuance, review>>
        /\ UNCHANGED <<granted, handler>>
    BY <1>5 DEF vars
  <2>2. TypeOK'
    BY <2>1, SameStores DEF IInv, TypeOK
  <2>3. Handling'
    BY <2>1 DEF IInv, Handling, Registering, Deciding, CurrentV1, PlansOf, planVars, HasPlan,
                Issued, BoundTo
  <2> QED  BY <2>1, <2>2, <2>3, SameStores DEF IInv
<1> QED  BY <1>1, <1>2, <1>3, <1>4, <1>5 DEF Next

LEMMA AlwaysIInv == Spec => []IInv
  BY InitIInv, NextIInv, PTL DEF Spec

-----------------------------------------------------------------------------
(* Theorems.                                                               *)

(* The rows of the three stores keep their types through every call, crash *)
(* and expired lease.                                                      *)
THEOREM TypeCorrect == Spec => []TypeOK
<1>1. IInv => TypeOK
  BY DEF IInv
<1> QED  BY <1>1, AlwaysIInv, PTL

(* No plan is in the plan store without its evidence, and none is issued   *)
(* that the plan store does not hold (stage_candidate, register,           *)
(* mark_issued are three transactions).                                    *)
THEOREM PlansAreStaged == Spec => []IssuanceMatchesPlans
<1>1. IInv => IssuanceMatchesPlans
  BY DEF IInv
<1> QED  BY <1>1, AlwaysIInv, PTL

(* The plan in force was issued, and a V2 in force replaced an issued V1   *)
(* of the same revision (_require_issued_plan, generate_v2).               *)
THEOREM CurrentIsIssued == Spec => []CurrentIsTrusted
<1>1. IInv => CurrentIsTrusted
  <2> SUFFICES ASSUME IInv, NEW p \in PlansOf(Shared, "CURRENT")
               PROVE  /\ Issued(p)
                      /\ version[p] = 2 =>
                            /\ Issued(parent[p])
                            /\ issuance[p].binding = issuance[parent[p]].binding
    BY DEF CurrentIsTrusted
  <2>1. p \in Plan /\ status[p] = "CURRENT" /\ HasPlan(p)
    BY DEF PlansOf, HasPlan
  <2> QED  BY <2>1 DEF IInv, AdoptedIsIssued, Replaces, Rows
<1> QED  BY <1>1, AlwaysIInv, PTL

(* A confirmed review names an issued V1 of its revision, and there is     *)
(* only one (mark_review_confirmed).                                       *)
THEOREM OneReviewIsConfirmed == Spec => []ReviewsAreIssued
<1>1. IInv => ReviewsAreIssued
  <2> SUFFICES ASSUME IInv, NEW x \in Candidate \X Revision, review[x].state = "CONFIRMED"
               PROVE  /\ review[x].plan \in Plan /\ Issued(review[x].plan)
                      /\ BoundTo(review[x].plan, x[2])
                      /\ \A y \in Candidate \X Revision :
                            review[y].state = "CONFIRMED" => y = x
    BY DEF ReviewsAreIssued
  <2>1. \A y \in Candidate \X Revision : review[y].state = "CONFIRMED" =>
           /\ review[y].plan \in Plan /\ HasPlan(review[y].plan)
           /\ Version(review[y].plan) = 1 /\ Issued(review[y].plan)
           /\ issuance[review[y].plan].binding = y[2] /\ CandidateOf[review[y].plan] = y[1]
    BY DEF IInv, Confirmed, IssuanceMatchesPlans, Version, BoundTo
  <2>2. \A y \in Candidate \X Revision : review[y].state = "CONFIRMED" =>
           review[y].plan = review[x].plan
    BY <2>1 DEF IInv, Rows
  <2>3. \A y \in Candidate \X Revision : review[y].state = "CONFIRMED" => y = x
    BY <2>1, <2>2
  <2> QED  BY <2>1, <2>3 DEF BoundTo
<1> QED  BY <1>1, AlwaysIInv, PTL

(* Only a decision brings a plan into force.                               *)
LEMMA OnlyDecideAdopts ==
    ASSUME IInv, [Next]_vars, NEW p \in Plan, status[p] # "CURRENT", status'[p] = "CURRENT"
    PROVE  Decide
<1>1. CASE Members
  BY <1>1 DEF Members, SaveRevision, PublishRevision, OtherOperation, LeaseEnds, planVars
<1>2. CASE \E op \in Operations : Calls(op)
  BY <1>2 DEF Calls, GenerateReview, GenerateV1, ConfirmReview, GenerateV2,
              GenerateAdjustment, BeginDecision, Begin, planVars
<1>3. CASE Register
  <2>1. CASE Registration(handler.plan)
    <3>1. handler.plan \in Plan
      BY <1>3 DEF Register, At, IInv, Handling, Registering
    <3>2. \E v, b, d : InsertProposed(Shared, handler.plan, v, b, d)
      BY <2>1 DEF Registration, RegisterV1, RegisterV2
    <3> QED  BY <3>1, <3>2, InsertFacts DEF IInv, TypeOK
  <2>2. CASE UNCHANGED planVars
    BY <2>2 DEF planVars
  <2> QED  BY <1>3, <2>1, <2>2 DEF Register
<1>4. CASE StageReview \/ Stage \/ Admit \/ MarkIssued \/ CloseReview \/ Finish \/ Crash
  BY <1>4 DEF StageReview, Stage, Admit, MarkIssued, CloseReview, Finish, Crash, planVars
<1>5. CASE Start \/ UNCHANGED vars
  BY <1>5 DEF Start, StartExecution, UnchangedRows, vars, planVars
<1> QED  BY <1>1, <1>2, <1>3, <1>4, <1>5 DEF Next, Steps

(* A plan comes into force only while the revision it was made for is the  *)
(* newest and the published one, although the decision and the revision    *)
(* are kept in different databases.                                        *)
THEOREM AdoptionAsAgreed == Spec => AdoptedAsAgreed
<1>1. IInv /\ [Next]_vars =>
         [\A p \in Plan :
             status[p] # "CURRENT" /\ status'[p] = "CURRENT" =>
                 /\ Issued(p)
                 /\ BoundTo(p, saved) /\ saved = published
                 /\ ContentOf[p] = content[saved]]_vars
  <2> SUFFICES ASSUME IInv, [Next]_vars, NEW p \in Plan,
                      status[p] # "CURRENT", status'[p] = "CURRENT"
               PROVE  /\ Issued(p)
                      /\ BoundTo(p, saved) /\ saved = published
                      /\ ContentOf[p] = content[saved]
    OBVIOUS
  <2>1. Decide
    BY OnlyDecideAdopts
  <2>2. /\ handler.at = "deciding" /\ handler.plan \in Plan /\ handler.goal \in Decisions
        /\ Issued(handler.plan) /\ BoundTo(handler.plan, published) /\ saved = published
    BY <2>1 DEF Decide, At, IInv, Handling, Deciding
  <2>3. Decision(Shared, handler.plan)
    BY <2>1, <2>2 DEF Decide, Transition, Decision, Decisions, planVars
  <2>4. p = handler.plan
    BY <2>2, <2>3, DecisionFacts DEF IInv, TypeOK
  <2>5. issuance[p] # Unstaged
    BY <2>2, <2>4 DEF Issued, Unstaged
  <2> QED  BY <2>2, <2>4, <2>5 DEF IInv, Bound, BoundTo
<1> QED  BY <1>1, AlwaysIInv, PTL DEF Spec, AdoptedAsAgreed

(* The evidence of a plan is written once, and an issued plan stays so     *)
(* (stage_candidate, mark_issued).                                         *)
THEOREM EvidenceStays == Spec => EvidenceIsImmutable
<1>1. IInv /\ [Next]_vars =>
         [\A p \in Plan :
             issuance[p] # Unstaged =>
                 /\ issuance'[p].binding = issuance[p].binding
                 /\ issuance'[p].evidence = issuance[p].evidence
                 /\ issuance'[p].state \in {issuance[p].state, "ISSUED"}]_vars
  <2> SUFFICES ASSUME IInv, [Next]_vars, NEW p \in Plan, issuance[p] # Unstaged
               PROVE  /\ issuance'[p].binding = issuance[p].binding
                      /\ issuance'[p].evidence = issuance[p].evidence
                      /\ issuance'[p].state \in {issuance[p].state, "ISSUED"}
    OBVIOUS
  <2>1. CASE UNCHANGED issuance
    BY <2>1
  <2>2. CASE Stage
    BY <2>2 DEF Stage, IInv, TypeOK
  <2>3. CASE MarkIssued
    BY <2>3 DEF MarkIssued, IInv, TypeOK, IssuanceRow
  <2>4. UNCHANGED issuance \/ Stage \/ MarkIssued
    <3>1. CASE Members
      BY <3>1 DEF Members, SaveRevision, PublishRevision, OtherOperation, LeaseEnds
    <3>2. CASE \E op \in Operations : Calls(op)
      BY <3>2 DEF Calls, GenerateReview, GenerateV1, ConfirmReview, GenerateV2,
                  GenerateAdjustment, BeginDecision, Begin
    <3>3. CASE Steps
      BY <3>3 DEF Steps, StageReview, Admit, Register, CloseReview, Decide, Finish, Crash
    <3>4. CASE Start \/ UNCHANGED vars
      BY <3>4 DEF Start, vars
    <3> QED  BY <3>1, <3>2, <3>3, <3>4 DEF Next
  <2> QED  BY <2>1, <2>2, <2>3, <2>4
<1> QED  BY <1>1, AlwaysIInv, PTL DEF Spec, EvidenceIsImmutable
=============================================================================
