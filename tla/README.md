# Verification of the imagine backend

imagine plans a day trip under constraints, keeps every plan version for ever,
lets a group agree on what is to be planned, and follows the trip while it is
carried out. This directory holds TLA+ models of the backend's stateful core,
the TLC runs that check them and the TLAPS proofs about them. `PROJECT.json`
lists, for machines, what this file explains: components, runs, mutants, the
source lines of every definition, hazards, findings and theorems. Source paths
below are relative to the repository.

## 1. The system

One process serves everything (`Dockerfile`: `uvicorn app.main:app`, one worker;
`app/main.py` wires the services). All durable state is in one SQLite file, and each
repository method is one `BEGIN IMMEDIATE` transaction. Most routes are `async`
functions whose bodies call repositories synchronously, so **between two awaits
nothing else runs**; what comes between two transactions of one handler is a
crash, the clock, or, if there is an `await` between them, any other handler. The exception
are the routes of parent trips: they are plain `def` functions, which the server
runs on a thread pool, so they overlap with each other and with the event loop.

| part | state it keeps | operations | talks to |
|---|---|---|---|
| Plan version store (`plan_store.py`, `plan_guard.py`, `plan_service.py`) | `trips.trip_status`, `plan_versions` (status, version, immutable snapshot) | register_proposed, confirm, start_execution, accept_v2, reject_v2 | called by the planning boundary and the plan routes; shares `trips` with the workflow store |
| Workflow store (`workflow_store.py`) | `execution_events`, constraint drafts, confirmed inputs, two-day snapshots, adjustment events | create_event (may complete the trip), draft and confirmation calls | reads plans, writes `trips` |
| Replanning (`planning_boundary_service.py`, `selector.py`, `suffix_planner.py`, `execution_replanning/context.py`) | none of its own | three V2 endpoints: read CURRENT and events, compute, register | plan store, workflow store |
| Draft revisions (`trip_draft_revision_store.py`, `trip_draft_revision_service.py`) | revision rows, head (current, pending), command rows (CLAIMED, COMPLETED, FAILED) | claim_next, complete, fail, recovery of orphaned claims | awaits the language model between claim and completion |
| Collaboration (`collaboration_store.py`, `collaboration_service.py`) | session (revision, version), confirmations, change proposals, invitations, member sessions, operation leases | submit, advance_revision, propose, review, confirm, invite, redeem, revoke, acquire and complete a lease | draft revisions |
| Readiness guard (`collaboration_readiness.py`) | none (a permit in memory) | `operation()`: readiness check, lease, body, completion | collaboration store; wraps every planning call |
| Planning boundary and trusted planning store (`planning_boundary_service.py`, `trusted_planning_store.py`) | `trusted_plan_issuances`, `candidate_plan_reviews` | generate, review, confirm and decide plans | plan store, readiness guard, planner |
| Conflict items and relaxations (`hard_conflicts.py`, `trip_draft.py`, `_resolve`) | items are derived; `collaboration_idempotency`, `collaboration_resolution_audit` | evaluate, resolve an item by a relaxation | draft revisions, collaboration |
| Trip flow registry, trip inputs (`trip_flow_store.py`, `workflow_store.py`, `collaboration_planning_bridge.py`) | the flow that owns each trip, confirmed inputs, care profiles, two-day snapshots | confirm, register, project an agreed revision, backfill at a restart | workflow routes, planning boundary |
| Parent trips (`parent_trip_store.py`, `parent_trip_service.py`) | dates with their child trips, members, invitations, a version for all | create, link a day, set a day's budget, invite, redeem, update a profile; which places the other days visit | child trips; the planning boundary asks for the places |
| Provider fact registry, recommendations (`provider_fact_registry.py`, `recommendation_service.py`, `recommendation_routes.py`) | signed sets of facts | search, filter, sign, rank, choose; hand a signed set out | map provider, language model, readiness guard |
| Planner, fairness, route risk, care rules, budget (`services/`) | none: pure functions | check a request, build, compare and choose candidates, review what is unknown | planning boundary, recommendations |
| Arrivals (`arrival_*`) | evidence of arrivals | record, decide, execute as an event | workflow store |
| Map provider, cache, language model gateways, accounts, memory timeline, plan difference | caches, accounts, views | | |

What is hard here, and what the properties are for (the full list, with lines, is
`hazards` in `PROJECT.json`):

* a claim is committed, the model is awaited, and the revision is written later,
  by a handler that may have been cancelled, timed out or killed meanwhile;
* one user action is several transactions in several repositories (answer: claim,
  revision, advance; approval: claim, patch, advance, review; plan: stage,
  register, issue, close the review), with a crash possible between any two;
* a planning operation runs under a lease that expires by the clock;
* plans, trip status and events are written by different statements, and a V2 is
  computed from an event log that goes on growing;
* requests of a parent trip check in one transaction and write in the next, while
  other threads link, edit and revise;
* a signed set of facts outlives the lease and the revision it was signed for, and is
  fetched under a lease of its own;
* a day plan must suit every member although only merged limits, signed places and
  the model's ranking are looked at;
* retries must find what an earlier attempt left and finish it.

## 2. Modules

| module | kind | what it is |
|---|---|---|
| `PlanVersions` | component | the plan store with the transition tables; one action per repository method |
| `TripExecution` | composition | `PlanVersions` + execution events + the three replanning endpoints |
| `TripContract` | abstract | what callers may rely on: one plan in force, one candidate, one replacement per trip |
| `DraftRevisions` | component | the revision store as operators on its rows (head, revisions, commands) |
| `Collaboration` | composition | `DraftRevisions` + session, confirmations, proposals, invitations, leases, handlers, crash and restart |
| `RevisionContract` | abstract | saved, published, granted: what `Collaboration` promises to planning |
| `PlanIssuance` | composition | `PlanVersions` + trusted planning store + boundary calls, over `RevisionContract` |
| `MCTripExecution`, `MCCollaboration`, `MCPlanIssuance` | instances | model values, small itineraries, symmetry |
| `ParentTrips` | component | the tables and requests of a parent trip; a request that checks first and writes later is two actions |
| `SiblingPlaces` | component | the places of the days of a parent trip, checked before a plan is decided |
| `TripInputs` | component | confirmed inputs, care profiles, snapshots and the flow of a trip; migration at a restart |
| `FactSets` | component | the signed sets of places of concurrent recommendations, and their fetches under the readiness guard, with lapsing leases |
| `Resolutions` | composition | `DraftRevisions` + session + audit + idempotency record: `_resolve` and its retries |
| `Outcomes` | helpers | the outcome of a call that may be refused; sorting by tuples |
| `Recommendation` | functions | filter, sign, rank and choose: a day plan from the places that were found |
| `CareRules` | functions | care profiles to constraints, their merge, the rules for routes and days |
| `Planner` | functions | checks of a request, the candidate, its cost and fairness, the choice among signed places |
| `PlanRequests` | functions | the review of what is unknown; the comparison of a trip with the agreed revision |
| `Relaxations` | functions | the contract of a draft, the items found in it, what a relaxation makes of it |
| `Services` | composition | the services above side by side; a pure one is called once with an input of a set |
| `MCServices`, `MCInputs` | instances | `Services` on a small instance, and the inputs of the pure services |
| `PlanVersionsProofs` | proofs | facts about the transactions of the plan store, for the modules that compose them |
| `TripExecutionProofs` | proofs | invariants of `TripExecution`; it implements `TripContract` |
| `DraftRevisionsProofs` | proofs | facts about the transactions of the revision store, for the modules that compose them |
| `CollaborationProofs` | proofs | invariants of `Collaboration`; it implements `RevisionContract` |
| `ResolutionsProofs` | proofs | the inductive invariant of `Resolutions` |
| `PlannerProofs` | proofs | what the planner accepts, recommends and makes of a review, for every request |
| `ServicesProofs` | proofs | invariants of `Services`: the other service components and the pure services |
| `IssuanceProofs` | proofs | invariants of `PlanIssuance` |

The composition is layered by contracts: `Collaboration` is proved to implement
`RevisionContract`, and `PlanIssuance` uses the actions of `RevisionContract`
itself (`Revisions!Save`, `Revisions!Publish`, `Revisions!Grant`) as the
environment of a planning call, so what holds of it holds above any
implementation of that contract.

### Trip: PlanVersions and TripExecution

The variables are the columns: `tripStatus`, and per plan `status`, `owner`,
`version`, `parent`, `tasks`; `reported` is the status the last transition call
answered with, kept because retries may answer with a status that is gone. A
refused call rolls back, so only successes and replays are steps. `RegisterV1`,
`RegisterV2`, `Confirm`, `StartExecution`, `AcceptV2`, `RejectV2` are the methods;
`ConfirmReplay`, `AcceptReplay`, `RejectReplay` are their idempotent branches.
`CreateEvent` is `create_event` with the completion rule. A replanning request is
`Read…` (reads under no lock) followed by `RegisterReplan` or `AbandonReplan`; the
ranking of candidates is abstracted to any candidate the selector lets through
(`Candidate`: frozen prefix kept, and for server-planned suffixes the same places).
Several workers may be between read and registration. One event loop would run the
call without an interruption; the model does not rely on it, because nothing in the
plan store does (every rule is checked again in the transaction that writes), so
the results also hold for several processes on one database file.

### Collaboration and DraftRevisions

`draft` holds the rows of the revision store, the other variables the tables of
the collaboration store; `task`, `permit` and `process` are the memory of the
server and are lost in `Crash`. A handler's program counter `task[k].at` is
*parsing* while the model is awaited and one of the *busy* steps between two
transactions without an await; a busy handler excludes all others (`LoopFree`).
`Crash` is enabled everywhere, `Start` is the next process with the recovery of
orphaned claims (`Recovered`; `_initialize` also runs when a running process
opens another repository: claims are then its own and nothing changes).
What a revision says is abstracted to two digests (`Content`): a counter that
changes with each shared change, and one per member that changes with this
member's answers. Readiness (`CanPlan`) is a conjunction over confirmations,
access, open proposals and unresolved failed answers, as in `_derive`. The
condition of `unresolved_failed_answer_attempts` on row order is implied by the
comparison of targets and is left out. A lease expires by `LeaseExpires` at any
time, also while its operation runs. The model begins when the first draft was
understood and the session bootstrapped.

### PlanIssuance

One boundary call runs at a time (`handler`), because the boundary never awaits;
`Begin` takes the lease and makes the checks of its entry point, `Stage`, `Admit`,
`Register`, `MarkIssued`, `CloseReview`, `Decide`, `Finish` are its transactions in
order, and `Crash` falls between any two. A call whose readiness or entry check
fails takes and gives back the lease; that is `OtherOperation` followed by
`LeaseEnds`. A planId is a digest of the request (and of the readiness for an
adjustment), so it fixes the kind, the candidate, the content and the tasks of the
plan: assumption `PlansAreDigests`. The refusal of `Decide` stands for the place
memory of the parent trip. The flow without collaboration is the case of one
revision that never changes. Execution events and completion are those of
`TripExecution`.

### The services (Services)

No two of the service modules share a variable, so interleaving them would multiply
states and add no behaviour: a behaviour of `Services` is a behaviour of one of
them, the one its `scene` names. A pure service is one step, `Call`, from an input of
one of the constant sets `PlanInputs`, `ReviewInputs`, `DraftInputs`... to the result
of the whole call; `MCServices` gives these sets the samples of `MCInputs`, the theorems
hold for any sets that keep the named assumptions.

* *Parent trip* (`ParentTrips`): variables are the tables (`days`, `seats`, `sessions`,
  `sync`), the children's own trips, what each client has seen, and the `request` of
  each thread. `link_day` and `update_day_budget` read in one step and write in
  another; the writing step checks only what its SQL checks.
* *Places of siblings* (`SiblingPlaces`): `checked` is the decision that has been
  compared with the other days and is not yet written.
* *Trip inputs* (`TripInputs`): both flows confirm; the bridge's registration,
  confirmation and snapshot are separate transactions (`handing`), and a restart
  migrates trips of an older database.
* *Fact sets* (`FactSets`): two recommendation runs on a trip whose members go on
  answering, objecting and confirming; the lease may lapse at any await. An answer
  that was sent before the lease is saved under it, so the revision (`agreed`) and the
  readiness (`ready`) may change while a lease is in force; they become fit to plan
  again only without one. A fetch of signed places (`PlacesOf`) answers what its
  handler does, in its order: `COLLABORATION_NOT_READY`, `..._OPERATION_STALE` for an
  operation id of another revision or of a process that died, `..._IN_PROGRESS` under
  a lease (`Guard`), then a set that is not found, a digest that is not the set's, a
  revision that is not the current one, and only then the places. The guard and the
  handler never await, and the server is one process with one event loop, so the
  readings before and after the lease is taken are one state and a fetch is one step
  (`FetchPlaces`), unless the process dies between its transactions (`CutOff`). That
  organizer and trip of a fetch are the right ones is taken for granted. The summary of
  a set (`get_provider_fact_set_summary`) takes and gives back its lease in the same
  way and compares no revision; its answer is not modelled.
* *Resolutions* (`Resolutions`): the handler of `_resolve` as five transactions, a
  crash between any two, the retry with the same key, an answer and a planning lease
  that stop it on its way. What the relaxation does to the items is any set without
  the resolved one; that this is so is `RelaxationsSettle`.
* *Recommendation, plan, signed places, review, revision, draft*: the pure calls.
  Places are points on a line with the facts their filters look at; names are compared
  by a given closeness, not letter by letter; seconds are whole minutes.

## 3. Runs

| run | question | bounds | result |
|---|---|---|---|
| `execution` | Do trip status, plans and events stay consistent? Can a running trip be finished unless a submitted V2 shortened it? Is `TripContract` implemented? | 1 trip, 2 plans, 4 task ids, 3 event keys, 2 requests | holds |
| `submitted_replans` | The same with `POST /replans`? | same, with submitted candidates | violated: finding 1 |
| `answers` | Do answers, crashes and revocations lose, repeat or leak anything? Is `RevisionContract` implemented? | 3 participants, 2 answers, 1 operation, 2 process ids, revision ≤ 3, version ≤ 8 | holds |
| `reviews` | Approvals racing answers, leases, crashes: is an approved change published, a leased revision agreed? Does every claim end? | 2 participants, 1 answer, 2 approvals of one proposal, 2 operations, revision ≤ 4, version ≤ 6; with fairness | holds |
| `stale_permit` | Does a planning operation always work on the draft's current revision? | 2 participants, 2 answers | violated: finding 2 |
| `applied_rejection` | Does a rejected change stay out of the draft? | 2 approvals | violated: finding 3 |
| `issuance` | Do only issued plans of the agreed revision come into force, whatever the crash? | 5 plans of all kinds, 2 candidates, 3 revisions | holds |
| `unfinished_issuance` | Can a retry always finish issuing a registered plan? | 1 revision | violated: finding 4 |
| `outdated_plans` | Can a plan be generated again when its revision is outdated? | 2 revisions | violated: finding 5 |
| `services` | Each service on its own, see below | 2 days, 2 children, 2 threads, sync version ≤ 3; 2 recommendation runs and a fetch, 3 places, 2 revisions; 1 item, 2 requests and an answer, 1 restart; the inputs of `MCInputs` | holds |
| `large_groups` | Can a group of any size up to 20 plan? | groups of 1 to 20 | violated: finding 6 |
| `refused_relaxations` | Can every relaxation that is offered be applied? | drafts of 2 members | violated: finding 7 |

What `services` shows: a client with the current version of a parent trip has its
current view (`SameVersionSameView`); a date keeps its child (`LinksAreFinal`) and
differs from it only after a race (`DriftComesFromARace`: the race itself is possible,
and the check outside the writing transaction lets it through); sibling days share a
place only by a link (`SharingComesFromLinking`); a trip keeps its flow and its
confirmed content (`OneFlowPerTrip`); the places of a recommendation are handed out to
a fetch exactly when the readiness guard lets it through and the recommendation is of
the current revision (`AnsweredFactsAreServable`); a request that counts as resolved
is published and audited (`ResolvedIsAudited`); signed places leave a plan
(`SignedFactsHaveAPlan`), which keeps every member's limits (`HardLimitsHold`) and
depends neither on the model nor on the order of the search when a meal is planned
(`RankingIsAHint`); an accepted or recommended plan suits each member though only
merged limits are checked (`AcceptedPlanSuitsEveryone`); a confirmed review leaves
nothing unknown (`ConfirmedReviewIsComplete`); a relaxation settles its item and
touches nobody else (`RelaxationsSettle`).

Why the bounds are enough: the store admits one V1 and one V2 per trip (a third
plan is always refused), so two plans and two competing requests meet every case
of registration but that refusal: with two plans no V2 is left to be tried after a
rejected one, and what `ReplanIsDecidable`, `OneCurrent` and `CurrentHandedOver` say
of a second replanning rests on the theorems, which have any number of plans; three
event keys finish a V1 of three tasks or a V2 of two. Two
process ids and a shared command log give a crash with recovery, and a second
crash of the recovered process is again such a pair. Three revisions give a plan
that is older than the published one while the next is saved. Every passing
property has a mutant, a plausible bug in a mapped definition, with which its
run fails. The theorems below have no bounds at all.

For the services: a race of the parent trip needs two threads, two dates and two
children; two runs of a recommendation are enough for one to lapse while the other
answers, and a third set would be again one of two revisions; one fetch is enough,
since a fetch leaves nothing behind but the row of its operation id and, if it was cut
off, a lease, which refuses others just as that of a run does. The inputs of the pure
services are chosen per rule: every filter, every refusal and every tie of an order
occurs in one of them, and more places than the eight that may be signed. They are
samples; section 5 has what the theorems say of all other inputs, of the choice among
the places that the provider found too. The limits 8, 30, 3 and 20 of the code are kept.

Bounds that are not in the code: `MaxReplans` (requests begun), `MaxRevision`,
`MaxVersion` (no request is taken at a higher session version), `MaxSync`, `MaxTime`
(of a parent trip), and the finite sets
of keys, plans, processes. Deadlock checking is off where a bounded or completed
instance really stops.

### Fairness

Only `ClaimsEnd` of `reviews` needs it (`FairSpec`). A coroutine whose answer has arrived is
resumed by the event loop in turn; it may be disabled again and again by other busy
handlers but is enabled infinitely often, and the model call has a timeout: strong
fairness of `Understood \/ NotUnderstood`. A handler between two transactions is
running: weak fairness of `Advance`, `Patch`, `Review`. The container is restarted:
weak fairness of `Start`. Nothing is assumed of members, of the clock or of crashes.

## 4. Findings

1. **A submitted V2 can strand a trip** (`workflow_store.py:703`): completion is only
   tested when a new terminal event is written; a V2 that holds only ended tasks
   leaves the trip EXECUTING for ever.
2. **A revision is saved under a lease** (`trip_draft_revision_store.py:484`): an
   answer claimed before the lease was granted is saved during the operation.
   `LeasedIsAgreed` still holds: the *published* revision is unchanged.
3. **A rejected change can be in the draft** (`collaboration_service.py:541`): after a
   crash between patch and advance of an approval the proposal can be rejected.
4. **An adjustment V2 can be stuck unissued** (`planning_boundary_service.py:1362`):
   the retry is refused by the very state its first attempt left.
5. **An outdated plan cannot be replaced** (`planning_boundary_service.py:2434`): it
   cannot be decided, and it keeps its version number.
6. **A group of ten or more can never plan** (`hard_conflicts.py:272`): its member keys
   are sorted as texts, so the evaluator reports an invalid binding on every revision;
   the comparison with the planning request (`planning_boundary_service.py:247`) has
   the same order and would refuse it too.
7. **Most relaxations are refused when chosen** (`trip_draft_revision_service.py:920`):
   the patched draft is validated with the evidence of the old one. Only the two budget
   relaxations, and a candidate for a text that has a value, can be applied.

Smaller divergences, seen while modelling and not made a run:
`start_execution` answers `EXECUTING` in REPLAN_REVIEW and writes nothing, while
`.agent/api_contracts.md:178` asks for CONFIRMED (`ReportsArePlausible` says what
its answers do mean); and when another member moves the session version on while
an answer is being parsed, `advance_revision` (`collaboration_store.py:1404`)
refuses the saved revision, and only a request with a newer expectedVersion
publishes it. After a crash in `_resolve` between the draft and the session
the resolved item is gone, so no request can publish that revision and every later one is
refused as stale; a crash between the audit and the record writes the audit twice, and
one between the session and the audit, followed by any other change of the session,
never (`docs/superpowers/specs/2026-08-27-s2-t002-draft-revision-design.md` does not
say). The planning bridge calls itself idempotent, but a further revision after the
first projection is refused (`CONFIRMED_TRIP_CONFLICT`). A member who must avoid stairs
cannot be planned for on foot or by transit: the provider never tells about stairs, and
an unknown on a hard rule rejects the candidate. `.agent/api_contracts.md:336` allows
two members where the code allows 20.

## 5. Proofs

Checked by TLAPS for all values of the constants (any number of trips, plans,
members, operations, processes; any length of run).

**Trip** (`TripExecutionProofs`, with `PlanVersionsProofs`; assumptions `NoneIsFresh`,
`ItinerariesAreDays`, `SourcesAreEndpoints`, `ReplansAreBounded`). `OneCurrent` and
`PhaseMatchesPlans` are not inductive: accepting a V2 needs to know that its parent
is the plan in force. `IInv` adds the shape of the rows (a plan has an owner, a
version 1 or 2, and no two plans of a trip share a version), what plans each trip
status goes with (`TripShape`, `FirstShape`, `SecondShape`, `ReplanShape`), and how
events relate to them. From it follow `TypeOK`, `OneCurrent`, `PhaseMatchesPlans`,
`ReplanIsDecidable`, `EndsOnce`, `EventsOnAdoptedPlans`, `CompletedIsDone`,
`UnfinishedUnlessShortened`, the action properties `CurrentHandedOver` and
`ReportsArePlausible`, and the refinement of `TripContract`. `DoneUnlessSubmitted` is the
other side of finding 1: without submitted candidates `DoneIsCompleted` holds, because
a V2 that the server plans has every task of its V1 (`SecondsKeepTasks`), so the event that
ends the last task of either plan sees that all have ended.

**Collaboration** (`CollaborationProofs`, with `DraftRevisionsProofs`; assumptions
`CommandsAreNamed`, `CollaboratorsAreNamed`). The argument: a claim is made only on
the published revision, and while it lasts the draft does not move, so nothing is
published under a claim; every claim of a process that died is an orphan the next
process fails once. `IInv` states this as `DraftOK` (at most one claim, backed by
the head; every later revision written by exactly one command), `Published` (the draft
is at most one revision ahead), `Owned` and `NoClaimLeaks` (claims belong to running
handlers), `Handlers` (what each program counter implies), `LeasedIsAgreed`,
`ApprovedIsPublished`. Proved: `TypeOK`, `ClaimsAreHeld`, `NoClaimLeaks`,
`OneWriterPerRevision`, `LeasedIsAgreed`, `ApprovedIsPublished`, `OthersStillAgree`, and
the refinement of `RevisionContract`.

**Issuance** (`IssuanceProofs`, with `PlanVersionsProofs`; assumptions `NoneIsFresh`,
`PlansAreDigests`). None of the properties is inductive: that a decided plan is the
one agreed on depends on what the call checked at its beginning. The argument is that
the agreement does not move while a call runs, so a check made at its beginning holds
when it writes, however many transactions later. `Handling` says so for every step of
the call (after staging the evidence names the published revision, after registration
the plan is in the store, before closing it is issued); `Rows`, `Bound`, `Replaces` and
`Confirmed` say what the rows of the two stores have in common when no call runs, also
after a crash. Proved: `TypeOK`, `IssuanceMatchesPlans`, `CurrentIsTrusted`,
`ReviewsAreIssued`, `AdoptedAsAgreed` and `EvidenceIsImmutable`, that is, all the
properties that hold.

**Services** (`ServicesProofs`, with `ResolutionsProofs` and `PlannerProofs`). The
theorems are stated of the specification of `Services`: a behaviour of it is one of each
component's own specification (a step of another scene leaves the component alone), so
what is an invariant of the component is one of `Services`. Assumed are the types of the
constants (`AmountsAreNumbers`, `BoundsAreNumbers`, `PlansVisitPlaces`, `NoneIsNoRow`,
`SettlementsAreNamed`) and of the inputs: requests have the types of their models
(`RequestsAreTyped`), a review is of a candidate that the planner accepted
(`ReviewsAreOfPlans`), a stored draft has kept its contract (`DraftsAreValid`). TLC
evaluates all of them on the sample inputs.

*Parent trips, sibling places.* `SameVersionSameView` needs that no viewer has seen a
version later than the table's: then a step that counts the version up leaves every
polled view behind, and a step that does not must show nothing new. `LinksAreFinal` and
`DriftComesFromARace` follow from the rows alone (one date per linked child) and from
what a checked request still remembers of the rows it read; nothing is assumed of the
order in which the threads run. `SharingComesFromLinking` needs what a decision in
flight still knows of the other days.

*Trip inputs, fact sets, resolutions.* The flow and the confirmed row of a trip are
written only where nothing stands, except that the single flow writes a single trip
again, so `OneFlowPerTrip` is its own invariant. For `AnsweredFactsAreServable` the
invariant keeps, from signing to answering, a stored set with the digest of the run,
whose draft has the run's revision and at least its places, so a fetch that passes the
guard can fail on nothing but the revision; digests are tuples in the model and so
injective. For `ResolvedIsAudited` the store keeps a completed command for
good and the session only moves forward, so what was published stays published;
`Handling` says what the handler relies on at each of its transactions, and every
transaction can be its last.

*Planner* (`AcceptedSuitsEveryone`, `RecommendedSuitsEveryone`). Each merged limit is the
least of the members' limits or their union, so it is at least as strict as each; the
rules are checked against the merged limits for every route and for the day; so an
accepted request keeps each profile. A recommended plan is one of those that were
accepted, since the fairest is in the set it is chosen from (the keys are totally ordered).
Sums and least elements are folds of the community modules, and the induction theorems
of the library cannot be used with them: a smallest counterexample takes their
place (`SmallestSet`, `LeastNatural`).

*Review* (`AnsweredReviewIsComplete`). The answers change prices, sources and facilities
and nothing that another check looks at (`SameRequest`, `OnlyTheBudgetCounts`), so only
the budget can refuse the confirmed request. Every price, source and facility that was
unknown was asked for and is now known (`NothingIsUnknown`); a facility that a route did
not mention is appended once, one that it mentions is overwritten. The cost is a sum
over tasks, the answers are a sum over items, and sums do not depend on the order
(`SumsMeet`).

*Relaxations* (`OffersSettle`). Each kind of relaxation changes one field by one of three
operations; the end of a day becomes None, a cap becomes the budget, a list item is removed
and the items after it move up, and as the list has each item once, the item is gone.

*Recommendation* (`RecommendedKeepsHardLimits`, `RankingIsOnlyAHint`,
`SignedCanBePlanned`). Assumed are the types of the trip, of the places and of the ranking
(`RecommendationsAreTyped`). Every list is sorted by a key that ends with a place's identity,
so its keys tell the places apart (`AreKeys`) and the list holds each place once
(`SortedIsListing`). What is sorted is thus a function of a set, and so is all that
comes of it: neither the search nor, when every candidate may be taken, the ranking
leaves a trace (`RankingIsAHint`). Whatever is chosen is a subset of the takeable candidates
that contains the required ones, and these are admissible places (`HardLimitsHold`). For
`SignedFactsHaveAPlan`, the reservation takes at most three answers to labels, the
restaurants of the day's meals and three visits before it is full
(`EarlierIsKept`), so enough of each are offered, and a set that has the required
places, a restaurant for each meal and three visits exists (`PartCanBeExtended`) and
can be put in order (`MealsAreInserted`).

Both `HardLimitsHold` and `SignedFactsHaveAPlan` are said of trips whose members avoid at
most `MaxAvoided` (24) different labels: the filter looks at the first 24 only
(recommendation_service.py:1226), while the later steps look at all of them.

Only model-checked: `ClaimsEnd` (liveness under fairness is out of the prover's reach), and
the violated properties, of which `DoneIsCompleted` is proved without submitted
candidates.

## 6. Not modelled, and the plan

Not modelled: SQLite errors and disk loss; the single-user draft flow and accounts
(one or two transactions, no later step depends on an earlier one); HTTP, rendering,
media, timeline views and plan difference (read-only); the provider cache; the
language model beyond answering, failing or timing out, and ranking in any order;
expiry of invitations (a request that is never made); bootstrap of a collaboration
before its first draft is understood; the compilation of a report into an adjustment;
arrivals, which end in an event that `TripExecution` has; letters, digits and
formats of texts.

Next, in this order:

1. `Arrival`: evidence, the member's decision and the event it becomes.
2. Adjustment events with their idempotency keys, composed with `TripExecution`.
3. The read-through cache: an answer that replaces a better one.
4. The suffix planner and the selector's ranking as functions.
