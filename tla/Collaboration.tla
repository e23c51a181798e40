---------------------------- MODULE Collaboration ----------------------------
(***************************************************************************)
(* One shared trip: members answer, confirm and propose changes, the       *)
(* organizer reviews them, and planning operations run under a lease       *)
(* (collaboration_service.py, collaboration_store.py,                      *)
(* trip_draft_revision_service.py, collaboration_readiness.py).            *)
(*                                                                         *)
(* The server is one process with one event loop. A handler gives the loop *)
(* up only where it awaits, so two transactions with no await between them *)
(* are separated by nothing but a crash: a task in a Busy step excludes    *)
(* every other handler, and Crash is enabled everywhere. Everything but    *)
(* task, permit and process is in the database and survives a crash.       *)
(***************************************************************************)
EXTENDS DraftRevisions

CONSTANTS
    Organizer,
    Proposals,      \* identities of change proposals
    About,          \* the proposal each approving request is about
    Operations,     \* operation ids of planning requests
    MaxRevision,    \* bound: no revision after this one is claimed
    MaxVersion      \* bound: no request is taken at this session version

Members == Participants \ {Organizer}

ASSUME CollaboratorsAreNamed ==
    /\ Organizer \in Participants
    /\ Author \in [Answers -> Members]
    /\ About \in [Approvals -> Proposals]
    /\ MaxRevision \in Nat
    /\ MaxVersion \in Nat

VARIABLES
    draft,          \* the rows of the revision store
    session,        \* collaboration_sessions: current_revision and version
    confirmation,   \* what each participant confirmed
    proposal,       \* status of each change proposal
    invitation,     \* status of each member's latest invitation
    access,         \* status of each member's latest session
    lease,          \* collaboration_operation_leases
    permit,         \* the revision each running planning operation works on
    task,           \* the running handlers
    process,        \* the id of the running server process
    started         \* the process ids used so far

vars == <<draft, session, confirmation, proposal, invitation, access, lease,
          permit, task, process, started>>

members == <<confirmation, proposal, invitation, access>>
server  == <<process, started>>

-----------------------------------------------------------------------------

Unconfirmed == [revision |-> 0, shared |-> 0, member |-> 0]
IdleTask    == [at |-> "idle", base |-> 0, version |-> 0]
NoLease     == [status |-> "NONE", revision |-> 0]

Init ==
    /\ draft = FirstDraft
    /\ session = [revision |-> 1, version |-> 1]
    /\ confirmation = [m \in Participants |-> Unconfirmed]
    /\ proposal = [x \in Proposals |-> "NONE"]
    /\ invitation = [m \in Members |-> "NONE"]
    /\ access = [m \in Members |-> "NONE"]
    /\ lease = [op \in Operations |-> NoLease]
    /\ permit = [op \in Operations |-> NoRevision]
    /\ task = [k \in Commands |-> IdleTask]
    /\ process \in Owners
    /\ started = {process}

Running == process # NoOwner

(* Steps of a handler that runs on without giving up the event loop.       *)
Busy == {"patching", "advancing", "reviewing"}

TaskRow == [at : {"idle", "parsing"} \cup Busy, base : Nat, version : Nat]

(* The event loop is free to start, or to resume, a handler.               *)
LoopFree == Running /\ \A k \in Commands : task[k].at \notin Busy

Leased == \E op \in Operations : lease[op].status = "ACTIVE"

(* The request names the version of the session the client last saw, and   *)
(* its acceptance makes the next one.                                      *)
AtVersion(v) == session.version = v /\ v < MaxVersion

NextVersion == session' = [session EXCEPT !.version = @ + 1]

-----------------------------------------------------------------------------
(* Readiness.                                                              *)

Revoked(m) ==
    /\ m # Organizer
    /\ \/ access[m] = "REVOKED"
       \/ access[m] = "NONE" /\ invitation[m] = "REVOKED"

Agrees(m, content) ==
    /\ confirmation[m].shared = content.shared
    /\ confirmation[m].member = content.member[m]

Confirmed(m) ==
    /\ confirmation[m] # Unconfirmed
    /\ ~Revoked(m)
    /\ Agrees(m, CurrentContent(draft))
    /\ ~Unresolved(draft, m)

(* The digest of a revision covers its number, so a confirmation of an     *)
(* older revision counts only beside one of the current revision.          *)
SourceReady ==
    \/ \A m \in Participants : confirmation[m].revision = draft.current
    \/ /\ \E m \in Participants : confirmation[m].revision = draft.current
       /\ \E m \in Participants : confirmation[m].revision # draft.current
       /\ \A m \in Participants :
             confirmation[m].shared = CurrentContent(draft).shared

CanPlan ==
    /\ \A m \in Participants : Confirmed(m)
    /\ \A x \in Proposals : proposal[x] # "PENDING"
    /\ session.revision = draft.current
    /\ SourceReady

-----------------------------------------------------------------------------
(* A member's answer: claim, await the language model, complete, advance.  *)

Send(k) ==
    /\ LoopFree
    /\ task[k].at = "idle"
    /\ access[Author[k]] = "ACTIVE"
    /\ ~Leased
    /\ AtVersion(session.version)
    /\ LET d == Recovered(draft, process) IN
       \/ /\ Claimable(d, k, session.revision)
          /\ d.current < MaxRevision
          /\ draft' = Claimed(d, k, process)
          /\ task' = [task EXCEPT ![k] = [at |-> "parsing",
                                          base |-> session.revision,
                                          version |-> session.version]]
       \/ /\ Replays(d, k, session.revision)
          /\ draft' = d
          /\ task' = [task EXCEPT ![k] = [at |-> "advancing",
                                          base |-> session.revision,
                                          version |-> session.version]]
    /\ UNCHANGED <<session, members, lease, permit, server>>

\* Mutant: the member's scope is not checked.
MergedAll(content, m, part) == [content EXCEPT !.member = [x \in Participants |-> part]]

(* An answer is merged into the revision the handler read before it        *)
(* awaited the model, and only the author's own part may differ from it.   *)
Merged(content, m, part) == [content EXCEPT !.member[m] = part]

ReadBefore(k) == draft.rev[task[k].base]

(* The model answered and the merged proposal is valid. The author's part  *)
(* may come out as it was.                                                 *)
Understood(k) ==
    /\ LoopFree
    /\ k \in Answers
    /\ task[k].at = "parsing"
    /\ Completable(draft, k)
    /\ \E part \in {draft.command[k].target, ReadBefore(k).member[Author[k]]} :
          draft' = Completed(draft, k, Merged(ReadBefore(k), Author[k], part))
    /\ task' = [task EXCEPT ![k].at = "advancing"]
    /\ UNCHANGED <<session, members, lease, permit, server>>

\* Mutant: nothing releases the claim of a handler that ends early.
NotUnderstoodKeepsClaim(k) ==
    /\ LoopFree
    /\ task[k].at = "parsing"
    /\ task' = [task EXCEPT ![k].at = "idle"]
    /\ UNCHANGED <<draft, session, members, lease, permit, server>>

(* The model failed, its proposal was refused, or the client went away.    *)
NotUnderstood(k) ==
    /\ LoopFree
    /\ task[k].at = "parsing"
    /\ draft' = Released(draft, k)
    /\ task' = [task EXCEPT ![k].at = "idle"]
    /\ UNCHANGED <<session, members, lease, permit, server>>

\* Mutant: advance_revision does not look at the leases.
AdvanceUnderLease(k) ==
    /\ AtVersion(task[k].version)
    /\ session.revision = task[k].base

(* advance_revision, refused under a lease or when the session moved on.   *)
AdvanceAccepted(k) ==
    /\ ~Leased
    /\ AtVersion(task[k].version)
    /\ session.revision = task[k].base

\* Mutant: the UPDATE of the session forgets current_revision.
AdvanceVersionOnly(k) ==
    /\ Running
    /\ task[k].at = "advancing"
    /\ AdvanceAccepted(k)
    /\ NextVersion
    /\ task' = [task EXCEPT ![k].at = IF k \in Approvals THEN "reviewing" ELSE "idle"]
    /\ UNCHANGED <<draft, members, lease, permit, server>>

Advance(k) ==
    /\ Running
    /\ task[k].at = "advancing"
    /\ \/ /\ AdvanceAccepted(k)
          /\ session' = [revision |-> draft.command[k].target,
                         version  |-> session.version + 1]
          /\ task' = [task EXCEPT ![k].at =
                         IF k \in Approvals THEN "reviewing" ELSE "idle"]
       \/ /\ ~AdvanceAccepted(k)
          /\ task' = [task EXCEPT ![k].at = "idle"]
          /\ UNCHANGED session
    /\ UNCHANGED <<draft, members, lease, permit, server>>

-----------------------------------------------------------------------------
(* Change proposals.                                                       *)

Propose(m, x) ==
    /\ LoopFree
    /\ access[m] = "ACTIVE"
    /\ ~Leased
    /\ proposal[x] = "NONE"
    /\ AtVersion(session.version)
    /\ proposal' = [proposal EXCEPT ![x] = "PENDING"]
    /\ NextVersion
    /\ UNCHANGED <<draft, confirmation, invitation, access, lease, permit, task,
                   server>>

(* Approval: claim the relaxation, patch the draft, advance the session,   *)
(* close the proposal. Four transactions of one handler.                   *)
Approve(k) ==
    /\ LoopFree
    /\ task[k].at = "idle"
    /\ proposal[About[k]] = "PENDING"
    /\ AtVersion(session.version)
    /\ LET d == Recovered(draft, process) IN
       \/ /\ ~Leased
          /\ Claimable(d, k, session.revision)
          /\ d.current < MaxRevision
          /\ draft' = Claimed(d, k, process)
          /\ task' = [task EXCEPT ![k] = [at |-> "patching",
                                          base |-> session.revision,
                                          version |-> session.version]]
       \/ /\ Replays(d, k, session.revision)
          /\ draft' = d
          /\ task' = [task EXCEPT ![k] = [at |-> "advancing",
                                          base |-> session.revision,
                                          version |-> session.version]]
    /\ UNCHANGED <<session, members, lease, permit, server>>

(* The patched draft is valid, or the claim is failed.                     *)
Patch(k) ==
    /\ Running
    /\ task[k].at = "patching"
    /\ \/ /\ Completable(draft, k)
          /\ \E part \in {draft.command[k].target, ReadBefore(k).shared} :
                draft' = Completed(draft, k,
                                   [ReadBefore(k) EXCEPT !.shared = part])
          /\ task' = [task EXCEPT ![k].at = "advancing"]
       \/ /\ draft' = Released(draft, k)
          /\ task' = [task EXCEPT ![k].at = "idle"]
    /\ UNCHANGED <<session, members, lease, permit, server>>

Review(k) ==
    /\ Running
    /\ task[k].at = "reviewing"
    /\ session.version = task[k].version + 1
    /\ proposal[About[k]] = "PENDING"
    /\ proposal' = [proposal EXCEPT ![About[k]] = "APPROVED"]
    /\ NextVersion
    /\ task' = [task EXCEPT ![k].at = "idle"]
    /\ UNCHANGED <<draft, confirmation, invitation, access, lease, permit,
                   server>>

Reject(x) ==
    /\ LoopFree
    /\ proposal[x] = "PENDING"
    /\ AtVersion(session.version)
    /\ proposal' = [proposal EXCEPT ![x] = "REJECTED"]
    /\ NextVersion
    /\ UNCHANGED <<draft, confirmation, invitation, access, lease, permit, task,
                   server>>

-----------------------------------------------------------------------------
(* Confirmations and access.                                               *)

Confirm(m) ==
    /\ LoopFree
    /\ m # Organizer => access[m] = "ACTIVE"
    /\ ~Leased
    /\ AtVersion(session.version)
    /\ confirmation' = [confirmation EXCEPT ![m] =
                          [revision |-> draft.current,
                           shared   |-> CurrentContent(draft).shared,
                           member   |-> CurrentContent(draft).member[m]]]
    /\ NextVersion
    /\ UNCHANGED <<draft, proposal, invitation, access, lease, permit, task,
                   server>>

Invite(m) ==
    /\ LoopFree
    /\ ~Leased
    /\ invitation[m] \notin {"ACTIVE", "REDEEMED"}
    /\ AtVersion(session.version)
    /\ invitation' = [invitation EXCEPT ![m] = "ACTIVE"]
    /\ NextVersion
    /\ UNCHANGED <<draft, confirmation, proposal, access, lease, permit, task,
                   server>>

Redeem(m) ==
    /\ LoopFree
    /\ ~Leased
    /\ invitation[m] \in {"ACTIVE", "REDEEMED"}
    /\ invitation' = [invitation EXCEPT ![m] = "REDEEMED"]
    /\ access' = [access EXCEPT ![m] = "ACTIVE"]
    /\ UNCHANGED <<draft, session, confirmation, proposal, lease, permit, task,
                   server>>

(* The session of a redeemed invitation goes with it.                      *)
Revoke(m) ==
    /\ LoopFree
    /\ ~Leased
    /\ invitation[m] # "NONE"
    /\ AtVersion(session.version)
    /\ invitation' = [invitation EXCEPT ![m] = "REVOKED"]
    /\ access' = [access EXCEPT ![m] =
                    IF invitation[m] = "REDEEMED" THEN "REVOKED" ELSE @]
    /\ NextVersion
    /\ UNCHANGED <<draft, confirmation, proposal, lease, permit, task, server>>

-----------------------------------------------------------------------------
(* Planning operations under a lease.                                      *)

(* acquire_lease: an operation id is new, or was used for this revision    *)
(* and its lease was given back.                                           *)
MayAcquire(op) ==
    /\ ~Leased
    /\ \/ lease[op].status = "NONE"
       \/ lease[op].status = "DONE" /\ lease[op].revision = draft.current

PlanBegin(op) ==
    /\ LoopFree
    /\ CanPlan
    /\ MayAcquire(op)
    /\ lease' = [lease EXCEPT ![op] = [status |-> "ACTIVE",
                                       revision |-> draft.current]]
    /\ permit' = [permit EXCEPT ![op] = draft.current]
    /\ UNCHANGED <<draft, session, members, task, server>>

(* The handler leaves its with block: complete_lease.                      *)
PlanEnd(op) ==
    /\ LoopFree
    /\ permit[op] # NoRevision
    /\ lease' = [lease EXCEPT ![op].status = "DONE"]
    /\ permit' = [permit EXCEPT ![op] = NoRevision]
    /\ UNCHANGED <<draft, session, members, task, server>>

(* The clock passes expires_at.                                            *)
LeaseExpires(op) ==
    /\ lease[op].status = "ACTIVE"
    /\ lease' = [lease EXCEPT ![op].status = "EXPIRED"]
    /\ UNCHANGED <<draft, session, members, permit, task, server>>

-----------------------------------------------------------------------------
(* Crash and restart.                                                      *)

Crash ==
    /\ Running
    /\ started # Owners       \* bound: as many crashes as restarts
    /\ process' = NoOwner
    /\ task' = [k \in Commands |-> [task[k] EXCEPT !.at = "idle"]]
    /\ permit' = [op \in Operations |-> NoRevision]
    /\ UNCHANGED <<draft, session, members, lease, started>>

(* A new process id; the store recovers orphaned claims as it opens.       *)
Start(p) ==
    /\ ~Running
    /\ p \notin started
    /\ process' = p
    /\ started' = started \cup {p}
    /\ draft' = Recovered(draft, p)
    /\ UNCHANGED <<session, members, lease, permit, task>>

-----------------------------------------------------------------------------

AnswerStep(k) ==
    \/ k \in Answers /\ Send(k)
    \/ Understood(k)
    \/ NotUnderstood(k)

ReviewStep(k) == (k \in Approvals /\ Approve(k)) \/ Patch(k) \/ Review(k)

ProposalStep(x) == Reject(x) \/ \E m \in Members : Propose(m, x)

AccessStep(m) == Invite(m) \/ Redeem(m) \/ Revoke(m)

PlanStep(op) == PlanBegin(op) \/ PlanEnd(op) \/ LeaseExpires(op)

Next ==
    \/ \E k \in Commands : AnswerStep(k) \/ ReviewStep(k) \/ Advance(k)
    \/ \E x \in Proposals : ProposalStep(x)
    \/ \E m \in Participants : Confirm(m)
    \/ \E m \in Members : AccessStep(m)
    \/ \E op \in Operations : PlanStep(op)
    \/ Crash
    \/ \E p \in Owners : Start(p)

Spec == Init /\ [][Next]_vars

(* The event loop resumes every coroutine whose answer has arrived, in     *)
(* turn; a model call ends with an answer or a timeout; a handler that is  *)
(* running goes on; a stopped server is started again.                     *)
Fairness ==
    /\ \A k \in Commands :
          /\ SF_vars(Understood(k) \/ NotUnderstood(k))
          /\ WF_vars(Advance(k) \/ Patch(k) \/ Review(k))
    /\ WF_vars(\E p \in Owners : Start(p))

FairSpec == Spec /\ Fairness

-----------------------------------------------------------------------------

TypeOK ==
    /\ draft \in [current : Nat, pending : Nat,
                  rev : [1 .. draft.current -> Content],
                  command : [Commands -> CommandRow]]
    /\ session \in [revision : Nat, version : Nat]
    /\ confirmation \in [Participants ->
                           [revision : Nat, shared : Nat, member : Nat]]
    /\ proposal \in [Proposals -> {"NONE", "PENDING", "APPROVED", "REJECTED"}]
    /\ invitation \in [Members -> {"NONE", "ACTIVE", "REDEEMED", "REVOKED"}]
    /\ access \in [Members -> {"NONE", "ACTIVE", "REVOKED"}]
    /\ lease \in [Operations ->
                    [status : {"NONE", "ACTIVE", "EXPIRED", "DONE"},
                     revision : Nat]]
    /\ permit \in [Operations -> Nat]
    /\ task \in [Commands -> TaskRow]
    /\ process \in started \cup {NoOwner}
    /\ started \subseteq Owners

-----------------------------------------------------------------------------
(* Safety of the revision store.                                           *)

(* A pending revision is the next one and is backed by exactly one claim,  *)
(* and no claim is left over when nothing is pending: an answer is never   *)
(* parsed twice for one revision, and no head stays blocked by a claim     *)
(* that is gone.                                                           *)
ClaimsAreHeld ==
    /\ draft.pending # NoRevision => \E k \in Commands : Status(draft, k) = "CLAIMED"
    /\ \A k \in Commands : Status(draft, k) = "CLAIMED" =>
          /\ HeadHolds(draft, k)
          /\ draft.pending = draft.current + 1
          /\ \A j \in Commands : Status(draft, j) = "CLAIMED" => j = k

(* While the server runs, every claim belongs to a handler of this very    *)
(* process that is still at work: whatever ends a handler - an answer, a   *)
(* failure, a cancelled request, a crash - also ends its claim.            *)
NoClaimLeaks ==
    Running =>
        \A k \in Commands :
            Status(draft, k) = "CLAIMED"
                <=> task[k].at \in {"parsing", "patching"}

(* Every revision after the first was written by exactly one command, on   *)
(* top of the one before: no answer is lost, none is applied twice.        *)
OneWriterPerRevision ==
    /\ \A r \in 2 .. draft.current : \E k \in Commands :
          /\ Status(draft, k) = "COMPLETED"
          /\ draft.command[k].target = r
    /\ \A j, k \in Commands :
          /\ Status(draft, j) = "COMPLETED"
          /\ Status(draft, k) = "COMPLETED"
          /\ draft.command[j].target = draft.command[k].target
          => j = k

-----------------------------------------------------------------------------
(* Safety of the session beside the store.                                 *)

(* The session and the draft are written by different transactions, with a *)
(* crash, a lease or another member's request possible between them: the   *)
(* draft is never more than the one unpublished revision ahead.            *)
AtMostOneAhead ==
    /\ session.revision <= draft.current
    /\ draft.current <= session.revision + 1

(* Through every interleaving of answers, reviews, crashes and leases, the *)
(* two rows and the lease table implement RevisionContract: save on top of *)
(* the published revision, publish, and plan only what is published.       *)
Contract == INSTANCE RevisionContract WITH
    saved     <- draft.current,
    published <- session.revision,
    granted   <- {op \in Operations : lease[op].status = "ACTIVE"}

ImplementsContract == Contract!Spec

(* As long as a lease is in force, the revision it was granted for is the  *)
(* published one, everybody has confirmed exactly its content with access  *)
(* not revoked, nobody's objection is open, and there is no second lease.  *)
LeasedIsAgreed ==
    \A op \in Operations : lease[op].status = "ACTIVE" =>
        /\ session.revision = lease[op].revision
        /\ \A m \in Participants :
              ~Revoked(m) /\ Agrees(m, draft.rev[lease[op].revision])
        /\ \A x \in Proposals : proposal[x] # "PENDING"
        /\ \A o \in Operations : lease[o].status = "ACTIVE" => o = op

(* A change proposal that is shown as approved is part of the published    *)
(* revision, through every crash and retry of the approving request.       *)
ApprovedIsPublished ==
    \A x \in Proposals : proposal[x] = "APPROVED" =>
        \E k \in Approvals :
            /\ About[k] = x
            /\ Status(draft, k) = "COMPLETED"
            /\ draft.command[k].target <= session.revision

(* What a member confirmed stays what the draft says of the trip and of    *)
(* this member until this member answers again or a shared change is       *)
(* approved: nobody else's answer makes a confirmation stale.              *)
OthersStillAgree ==
    [][\A m \in Participants :
          Agrees(m, CurrentContent(draft)) /\ ~Agrees(m, CurrentContent(draft))'
          => \/ confirmation'[m] # confirmation[m]
             \/ \E k \in Commands :
                   /\ Status(draft, k) # Status(draft', k)
                   /\ k \in Approvals \/ Author[k] = m]_vars

(* A claim does not outlive its handler for ever: the head becomes free    *)
(* again after cancelled requests, model timeouts and crashes.             *)
ClaimsEnd == (draft.pending # NoRevision) ~> (draft.pending = NoRevision)

-----------------------------------------------------------------------------
(* What the documents say and the code does not do.                        *)

(* "No path may run downstream with an old digest": a planning operation   *)
(* under a lease in force works on the current revision of the draft.      *)
PermitIsCurrent ==
    \A op \in Operations :
        lease[op].status = "ACTIVE" /\ permit[op] # NoRevision
        => permit[op] = draft.current

(* "Only approval creates a new shared revision": what a rejected proposal *)
(* asked for is not in the draft.                                          *)
RejectedIsNotApplied ==
    \A k \in Approvals :
        proposal[About[k]] = "REJECTED" => Status(draft, k) # "COMPLETED"

=============================================================================
