------------------------ MODULE CollaborationProofs ------------------------
(***************************************************************************)
(* Proofs about Collaboration, for any number of members, answers, change  *)
(* proposals, planning operations and restarts.                            *)
(*                                                                         *)
(* The first part adds to DraftOK what relates the draft to the running    *)
(* handlers, to the session and to the leases, and proves the invariants   *)
(* of the runs.  The second part shows that Collaboration implements       *)
(* RevisionContract: the head row of the draft, the session row and the    *)
(* lease table are written by different transactions of different          *)
(* handlers, and still every step saves, publishes, grants or ends as the  *)
(* contract allows, or changes nothing of what the contract sees.          *)
(***************************************************************************)
EXTENDS Collaboration, DraftRevisionsProofs

-----------------------------------------------------------------------------
(* The draft beside the handlers, the session and the leases.              *)

(* The session follows the draft at a distance of one revision, and at     *)
(* none while a claim is open: a claim is made on the published revision,  *)
(* and the only handler that could publish waits for its own claim.        *)
Published ==
    /\ session.revision >= 1
    /\ AtMostOneAhead
    /\ \A k \in Commands : Status(draft, k) = "CLAIMED" => session.revision = draft.current

(* A claim names a process that was started, the running one if there is   *)
(* one; nothing runs while the server is down.                             *)
Owned ==
    /\ \A k \in Commands : Status(draft, k) = "CLAIMED" =>
          /\ draft.command[k].owner \in started
          /\ Running => draft.command[k].owner = process
    /\ ~Running => \A k \in Commands : task[k].at = "idle"

(* What a running handler may rely on after each of its steps.             *)
Handlers ==
    \A k \in Commands :
        /\ task[k].at # "idle" =>
              Status(draft, k) # "NEW" /\ task[k].base = draft.command[k].base
        /\ task[k].at \in {"advancing", "reviewing"} => Status(draft, k) = "COMPLETED"
        /\ task[k].at \in {"patching", "reviewing"} => k \in Approvals
        /\ task[k].at = "reviewing" => draft.command[k].target <= session.revision

IInv ==
    /\ TypeOK
    /\ DraftOK(draft)
    /\ Published
    /\ Owned
    /\ NoClaimLeaks
    /\ Handlers
    /\ LeasedIsAgreed
    /\ ApprovedIsPublished

LEMMA InitIInv == Init => IInv
<1> SUFFICES ASSUME Init PROVE IInv
  OBVIOUS
<1> USE DEF Init
<1>1. /\ draft.current = 1 /\ draft.pending = 0
      /\ draft.rev = [r \in {1} |-> FirstContent]
      /\ draft.command = [k \in Commands |-> NewCommand]
      /\ \A k \in Commands : Status(draft, k) = "NEW"
  BY DEF FirstDraft, NoRevision, Status, NewCommand
<1>2. DraftRow(draft)
  BY FirstDraftOK DEF DraftOK
<1>3. DraftOK(draft)
  BY FirstDraftOK
<1>4. TypeOK
  <2>1. IdleTask \in TaskRow /\ NoLease \in [status : {"NONE", "ACTIVE", "EXPIRED", "DONE"},
                                             revision : Nat]
        /\ Unconfirmed \in [revision : Nat, shared : Nat, member : Nat]
    BY DEF IdleTask, TaskRow, NoLease, Unconfirmed
  <2>2. session \in [revision : Nat, version : Nat]
    OBVIOUS
  <2> QED  BY <1>2, <2>1, <2>2 DEF TypeOK, DraftRow, NoRevision
<1>5. Published /\ Owned /\ NoClaimLeaks /\ Handlers
  BY <1>1, CommandsAreNamed
  DEF Published, AtMostOneAhead, Owned, NoClaimLeaks, Handlers, IdleTask, Running
<1>6. LeasedIsAgreed /\ ApprovedIsPublished
  BY DEF LeasedIsAgreed, ApprovedIsPublished, NoLease
<1> QED  BY <1>3, <1>4, <1>5, <1>6 DEF IInv

(* While the server runs there is nothing to recover.                      *)
LEMMA NothingToRecover ==
    ASSUME IInv, Running
    PROVE  Recovered(draft, process) = draft
  BY RecoveredOK DEF IInv, Owned

(* A lease stays agreed, and an approval published, through any step of    *)
(* the store.                                                              *)
LEMMA KeepsAgreement ==
    ASSUME IInv, Extends(draft', draft), UNCHANGED <<session, members, lease>>
    PROVE  LeasedIsAgreed'
<1>1. session.revision \in 1 .. draft.current
  BY DEF IInv, Published, AtMostOneAhead, TypeOK
<1>2. draft'.rev[session.revision] = draft.rev[session.revision]
  BY <1>1 DEF Extends
<1> QED
  BY <1>2 DEF IInv, LeasedIsAgreed, Revoked, Agrees, members

LEMMA KeepsApproval ==
    ASSUME IInv, Extends(draft', draft), session'.revision >= session.revision,
           session' \in [revision : Nat, version : Nat],
           \A x \in Proposals : proposal'[x] = "APPROVED" => proposal[x] = "APPROVED"
    PROVE  ApprovedIsPublished'
<1> SUFFICES ASSUME NEW x \in Proposals, proposal'[x] = "APPROVED"
             PROVE  \E k \in Approvals :
                       /\ About[k] = x
                       /\ Status(draft', k) = "COMPLETED"
                       /\ draft'.command[k].target <= session'.revision
  BY DEF ApprovedIsPublished
<1>1. PICK k \in Approvals : /\ About[k] = x
                             /\ Status(draft, k) = "COMPLETED"
                             /\ draft.command[k].target <= session.revision
  BY DEF IInv, ApprovedIsPublished
<1>2. draft.command[k].target \in Nat /\ session.revision \in Nat /\ session'.revision \in Nat
  BY <1>1 DEF IInv, TypeOK, CommandRow, Commands
<1>3. Status(draft', k) = "COMPLETED" /\ draft'.command[k].target = draft.command[k].target
  BY <1>1 DEF Extends, Commands
<1> QED  BY <1>1, <1>2, <1>3

-----------------------------------------------------------------------------
(* Steps of a handler on the draft.                                        *)

(* A handler goes on to another step.                                      *)
LEMMA TaskMoves ==
    ASSUME IInv, NEW k \in Commands, NEW at \in {"idle", "parsing"} \cup Busy,
           task' = [task EXCEPT ![k].at = at]
    PROVE  task' \in [Commands -> TaskRow]
<1>1. task \in [Commands -> TaskRow]
  BY DEF IInv, TypeOK
<1>2. task[k] \in TaskRow
  BY <1>1
<1>3. [task[k] EXCEPT !.at = at] \in TaskRow
  BY <1>2 DEF TaskRow
<1> QED  BY <1>1, <1>3

(* A handler begins, at the revision and version the request found.        *)
LEMMA TaskBegins ==
    ASSUME IInv, NEW k \in Commands, NEW at \in {"idle", "parsing"} \cup Busy,
           task' = [task EXCEPT ![k] = [at |-> at, base |-> session.revision,
                                        version |-> session.version]]
    PROVE  task' \in [Commands -> TaskRow]
<1>1. task \in [Commands -> TaskRow] /\ session \in [revision : Nat, version : Nat]
  BY DEF IInv, TypeOK
<1>2. [at |-> at, base |-> session.revision, version |-> session.version] \in TaskRow
  BY <1>1 DEF TaskRow
<1> QED  BY <1>1, <1>2

(* The claim of an answer or of an approval.                               *)
LEMMA ClaimStep ==
    ASSUME IInv, Running, NEW k \in Commands, task[k].at = "idle", ~Leased,
           Claimable(draft, k, session.revision),
           draft' = Claimed(draft, k, process),
           NEW at \in {"parsing", "patching"}, at = "patching" => k \in Approvals,
           task' = [task EXCEPT ![k] = [at |-> at, base |-> session.revision,
                                        version |-> session.version]],
           UNCHANGED <<session, members, lease, permit, server>>
    PROVE  IInv'
<1>1. process \in Owners /\ process \in started
  BY DEF IInv, TypeOK, Running
<1>2. /\ DraftOK(draft') /\ Extends(draft', draft)
      /\ draft'.current = draft.current
      /\ \A j \in Commands : j # k => draft'.command[j] = draft.command[j]
      /\ \A j \in Commands : Status(draft, j) # "CLAIMED"
      /\ draft'.command[k] = [status |-> "CLAIMED", base |-> draft.current,
                              target |-> draft.current + 1, owner |-> process]
  BY <1>1, ClaimedOK DEF IInv
<1>3. session.revision = draft.current
  BY DEF Claimable
<1>4. /\ \A j \in Commands : j # k => task'[j] = task[j]
      /\ task'[k] = [at |-> at, base |-> session.revision, version |-> session.version]
  BY DEF IInv, TypeOK
<1>5. TypeOK'
  <2>1. task' \in [Commands -> TaskRow]
    BY TaskBegins DEF Busy
  <2> QED  BY <1>2, <2>1 DEF IInv, TypeOK, DraftOK, DraftRow, members, server
<1>6. Published'
  BY <1>2, <1>3 DEF IInv, Published, AtMostOneAhead, Status
<1>7. Owned'
  BY <1>1, <1>2 DEF Owned, Running, Status, server
<1>8. NoClaimLeaks'
  BY <1>2, <1>4 DEF IInv, NoClaimLeaks, Status, Running, server
<1>9. Handlers'
  BY <1>2, <1>3, <1>4 DEF IInv, Handlers, Status
<1>10. LeasedIsAgreed'
  BY <1>2, KeepsAgreement
<1>11. ApprovedIsPublished'
  BY <1>2, KeepsApproval DEF members, IInv, TypeOK
<1> QED  BY <1>2, <1>5, <1>6, <1>7, <1>8, <1>9, <1>10, <1>11 DEF IInv

(* A request that finds its revision saved goes on to publish it.          *)
LEMMA ReplayStep ==
    ASSUME IInv, Running, NEW k \in Commands, task[k].at = "idle",
           Replays(draft, k, session.revision),
           draft' = draft,
           task' = [task EXCEPT ![k] = [at |-> "advancing", base |-> session.revision,
                                        version |-> session.version]],
           UNCHANGED <<session, members, lease, permit, server>>
    PROVE  IInv'
<1>1. /\ \A j \in Commands : j # k => task'[j] = task[j]
      /\ task'[k] = [at |-> "advancing", base |-> session.revision,
                     version |-> session.version]
      /\ Status(draft, k) = "COMPLETED"
      /\ draft.command[k].base = session.revision
  BY DEF IInv, TypeOK, Replays
<1>2. TypeOK'
  <2>1. task' \in [Commands -> TaskRow]
    BY TaskBegins DEF Busy
  <2> QED  BY <2>1 DEF IInv, TypeOK, members, server
<1>3. DraftOK(draft') /\ Extends(draft', draft)
  BY DEF IInv, DraftOK, DraftRow, Extends
<1>4. Published' /\ Owned'
  BY DEF IInv, Published, AtMostOneAhead, Owned, Running, server
<1>5. NoClaimLeaks'
  BY <1>1 DEF IInv, NoClaimLeaks, Running, server
<1>6. Handlers'
  BY <1>1 DEF IInv, Handlers
<1>7. LeasedIsAgreed'
  BY <1>3, KeepsAgreement
<1>8. ApprovedIsPublished'
  BY <1>3, KeepsApproval DEF members, IInv, TypeOK
<1> QED  BY <1>2, <1>3, <1>4, <1>5, <1>6, <1>7, <1>8 DEF IInv

(* A revision is saved and its handler goes on to publish it.              *)
LEMMA SaveStep ==
    ASSUME IInv, Running, NEW k \in Commands, task[k].at \in {"parsing", "patching"},
           Completable(draft, k), NEW c \in Content,
           draft' = Completed(draft, k, c),
           task' = [task EXCEPT ![k].at = "advancing"],
           UNCHANGED <<session, members, lease, permit, server>>
    PROVE  IInv'
<1>1. /\ DraftOK(draft') /\ Extends(draft', draft)
      /\ draft'.current = draft.current + 1
      /\ draft'.command[k].target = draft'.current
      /\ draft'.command[k].base = draft.current
      /\ Status(draft', k) = "COMPLETED"
      /\ \A j \in Commands : j # k => draft'.command[j] = draft.command[j]
      /\ \A j \in Commands : Status(draft', j) # "CLAIMED"
  BY CompletedOK DEF IInv
<1>2. /\ Status(draft, k) = "CLAIMED" /\ session.revision = draft.current
      /\ draft.command[k].base = draft.current
  BY DEF Completable, IInv, Published, HeadHolds
<1>3. /\ \A j \in Commands : j # k => task'[j] = task[j]
      /\ task'[k].at = "advancing" /\ task'[k].base = task[k].base
  BY DEF IInv, TypeOK
<1>4. TypeOK'
  <2>1. task' \in [Commands -> TaskRow]
    BY TaskMoves DEF Busy
  <2> QED  BY <1>1, <2>1 DEF IInv, TypeOK, DraftOK, DraftRow, members, server
<1>5. Published'
  BY <1>1, <1>2 DEF IInv, Published, AtMostOneAhead, TypeOK
<1>6. Owned'
  BY <1>1 DEF Owned, Running, server
<1>7. NoClaimLeaks'
  <2>1. \A j \in Commands : j # k => Status(draft, j) # "CLAIMED"
    BY <1>2 DEF IInv, DraftOK, Held
  <2> QED  BY <1>1, <1>3, <2>1 DEF IInv, NoClaimLeaks, Running, server
<1>8. Handlers'
  BY <1>1, <1>2, <1>3 DEF IInv, Handlers, Status
<1>9. LeasedIsAgreed'
  BY <1>1, KeepsAgreement
<1>10. ApprovedIsPublished'
  BY <1>1, KeepsApproval DEF members, IInv, TypeOK
<1> QED  BY <1>1, <1>4, <1>5, <1>6, <1>7, <1>8, <1>9, <1>10 DEF IInv

(* A claim is given up with its handler.                                   *)
LEMMA ReleaseStep ==
    ASSUME IInv, Running, NEW k \in Commands, task[k].at \in {"parsing", "patching"},
           draft' = Released(draft, k),
           task' = [task EXCEPT ![k].at = "idle"],
           UNCHANGED <<session, members, lease, permit, server>>
    PROVE  IInv'
<1>1. Status(draft, k) = "CLAIMED"
  BY DEF IInv, NoClaimLeaks
<1>2. /\ DraftOK(draft') /\ Extends(draft', draft)
      /\ draft'.current = draft.current
      /\ \A j \in Commands : j # k => draft'.command[j] = draft.command[j]
      /\ Status(draft', k) = "FAILED"
  BY <1>1, ReleasedOK DEF IInv
<1>3. /\ \A j \in Commands : j # k => task'[j] = task[j]
      /\ task'[k].at = "idle"
  BY DEF IInv, TypeOK
<1>4. TypeOK'
  <2>1. task' \in [Commands -> TaskRow]
    BY TaskMoves DEF Busy
  <2> QED  BY <1>2, <2>1 DEF IInv, TypeOK, DraftOK, DraftRow, members, server
<1>5. Published'
  BY <1>2 DEF IInv, Published, AtMostOneAhead, Status
<1>6. Owned'
  BY <1>2 DEF IInv, Owned, Running, Status, server
<1>7. NoClaimLeaks'
  BY <1>2, <1>3 DEF IInv, NoClaimLeaks, Status, Running, server
<1>8. Handlers'
  BY <1>2, <1>3 DEF IInv, Handlers, Status
<1>9. LeasedIsAgreed'
  BY <1>2, KeepsAgreement
<1>10. ApprovedIsPublished'
  BY <1>2, KeepsApproval DEF members, IInv, TypeOK
<1> QED  BY <1>2, <1>4, <1>5, <1>6, <1>7, <1>8, <1>9, <1>10 DEF IInv

-----------------------------------------------------------------------------
(* Every action preserves the invariant.                                   *)

LEMMA SendStep == ASSUME IInv, NEW k \in Answers, Send(k) PROVE IInv'
<1>1. /\ k \in Commands /\ Running /\ task[k].at = "idle" /\ ~Leased
      /\ UNCHANGED <<session, members, lease, permit, server>>
  BY DEF Send, LoopFree, Commands
<1>2. Recovered(draft, process) = draft
  BY <1>1, NothingToRecover
<1>3. CASE /\ Claimable(draft, k, session.revision)
           /\ draft' = Claimed(draft, k, process)
           /\ task' = [task EXCEPT ![k] = [at |-> "parsing", base |-> session.revision,
                                           version |-> session.version]]
  BY <1>1, <1>3, ClaimStep
<1>4. CASE /\ Replays(draft, k, session.revision)
           /\ draft' = draft
           /\ task' = [task EXCEPT ![k] = [at |-> "advancing", base |-> session.revision,
                                           version |-> session.version]]
  BY <1>1, <1>4, ReplayStep
<1> QED  BY <1>2, <1>3, <1>4 DEF Send

LEMMA ApproveStep == ASSUME IInv, NEW k \in Approvals, Approve(k) PROVE IInv'
<1>1. /\ k \in Commands /\ Running /\ task[k].at = "idle"
      /\ UNCHANGED <<session, members, lease, permit, server>>
  BY DEF Approve, LoopFree, Commands
<1>2. Recovered(draft, process) = draft
  BY <1>1, NothingToRecover
<1>3. CASE /\ ~Leased
           /\ Claimable(draft, k, session.revision)
           /\ draft' = Claimed(draft, k, process)
           /\ task' = [task EXCEPT ![k] = [at |-> "patching", base |-> session.revision,
                                           version |-> session.version]]
  BY <1>1, <1>3, ClaimStep
<1>4. CASE /\ Replays(draft, k, session.revision)
           /\ draft' = draft
           /\ task' = [task EXCEPT ![k] = [at |-> "advancing", base |-> session.revision,
                                           version |-> session.version]]
  BY <1>1, <1>4, ReplayStep
<1> QED  BY <1>2, <1>3, <1>4 DEF Approve

(* The revision a handler read before it waited is still there.            *)
LEMMA ReadIsContent ==
    ASSUME IInv, NEW k \in Commands, Completable(draft, k), task[k].at # "idle"
    PROVE  /\ ReadBefore(k) = CurrentContent(draft)
           /\ ReadBefore(k) \in Content
           /\ draft.command[k].target \in Nat
<1>1. /\ task[k].base = draft.current
      /\ draft.current \in 1 .. draft.current
      /\ draft.rev \in [1 .. draft.current -> Content]
      /\ draft.command[k] \in CommandRow
  BY DEF Completable, HeadHolds, IInv, Handlers, DraftOK, DraftRow, Numbered
<1> QED  BY <1>1 DEF ReadBefore, CurrentContent, CommandRow

LEMMA UnderstoodStep == ASSUME IInv, NEW k \in Commands, Understood(k) PROVE IInv'
<1>1. /\ Running /\ k \in Answers /\ task[k].at = "parsing" /\ Completable(draft, k)
      /\ task' = [task EXCEPT ![k].at = "advancing"]
      /\ UNCHANGED <<session, members, lease, permit, server>>
  BY DEF Understood, LoopFree
<1>2. PICK part \in {draft.command[k].target, ReadBefore(k).member[Author[k]]} :
         draft' = Completed(draft, k, Merged(ReadBefore(k), Author[k], part))
  BY DEF Understood
<1>3. ReadBefore(k) \in Content /\ draft.command[k].target \in Nat
  BY <1>1, ReadIsContent
<1>4. Author[k] \in Participants
  BY <1>1, CommandsAreNamed
<1>5. Merged(ReadBefore(k), Author[k], part) \in Content
  BY <1>2, <1>3, <1>4 DEF Merged, Content
<1> QED  BY <1>1, <1>2, <1>5, SaveStep

LEMMA NotUnderstoodStep == ASSUME IInv, NEW k \in Commands, NotUnderstood(k) PROVE IInv'
  BY ReleaseStep DEF NotUnderstood, LoopFree

LEMMA PatchStep == ASSUME IInv, NEW k \in Commands, Patch(k) PROVE IInv'
<1>1. /\ Running /\ task[k].at = "patching"
      /\ UNCHANGED <<session, members, lease, permit, server>>
  BY DEF Patch
<1>2. CASE draft' = Released(draft, k) /\ task' = [task EXCEPT ![k].at = "idle"]
  BY <1>1, <1>2, ReleaseStep
<1>3. ASSUME Completable(draft, k),
             NEW part \in {draft.command[k].target, ReadBefore(k).shared},
             draft' = Completed(draft, k, [ReadBefore(k) EXCEPT !.shared = part]),
             task' = [task EXCEPT ![k].at = "advancing"]
      PROVE  IInv'
  <2>1. ReadBefore(k) \in Content /\ draft.command[k].target \in Nat
    BY <1>1, <1>3, ReadIsContent
  <2>2. [ReadBefore(k) EXCEPT !.shared = part] \in Content
    BY <1>3, <2>1 DEF Content
  <2> QED  BY <1>1, <1>3, <2>2, SaveStep
<1> QED  BY <1>2, <1>3 DEF Patch

(* Publishing follows the base by one, and never happens under a lease.    *)
LEMMA AdvanceFacts ==
    ASSUME IInv, NEW k \in Commands, task[k].at = "advancing", AdvanceAccepted(k)
    PROVE  /\ draft.command[k].target = session.revision + 1
           /\ draft.command[k].target <= draft.current
           /\ draft.current = session.revision + 1
           /\ draft.current \in Nat /\ session.revision \in Nat
<1>1. /\ Status(draft, k) = "COMPLETED" /\ task[k].base = draft.command[k].base
      /\ session.revision = task[k].base
  BY DEF IInv, Handlers, AdvanceAccepted
<1>2. /\ draft.command[k].target = session.revision + 1
      /\ draft.command[k].target <= draft.current
  BY <1>1 DEF IInv, DraftOK, Numbered
<1> QED  BY <1>2 DEF IInv, TypeOK, Published, AtMostOneAhead

LEMMA AdvanceStep == ASSUME IInv, NEW k \in Commands, Advance(k) PROVE IInv'
<1>1. /\ Running /\ task[k].at = "advancing"
      /\ UNCHANGED <<draft, members, lease, permit, server>>
  BY DEF Advance
<1>2. Extends(draft', draft) /\ DraftOK(draft')
  BY <1>1 DEF IInv, DraftOK, DraftRow, Extends
<1>3. CASE task' = [task EXCEPT ![k].at = "idle"] /\ UNCHANGED session
  <2>1. /\ \A j \in Commands : j # k => task'[j] = task[j]
        /\ task'[k].at = "idle"
    BY <1>3 DEF IInv, TypeOK
  <2>2. TypeOK'
    <3>1. task' \in [Commands -> TaskRow]
      BY <1>3, TaskMoves DEF Busy
    <3> QED  BY <1>1, <1>3, <3>1 DEF IInv, TypeOK, members, server
  <2>3. Published' /\ Owned'
    BY <1>1, <1>3 DEF IInv, Published, AtMostOneAhead, Owned, Running, server
  <2>4. NoClaimLeaks' /\ Handlers'
    BY <1>1, <1>3, <2>1 DEF IInv, NoClaimLeaks, Handlers, Running, server
  <2>5. LeasedIsAgreed'
    BY <1>1, <1>2, <1>3, KeepsAgreement
  <2>6. ApprovedIsPublished'
    BY <1>1, <1>2, <1>3, KeepsApproval DEF members, IInv, TypeOK
  <2> QED  BY <1>2, <2>2, <2>3, <2>4, <2>5, <2>6 DEF IInv
<1>4. CASE /\ AdvanceAccepted(k)
           /\ session' = [revision |-> draft.command[k].target,
                          version |-> session.version + 1]
           /\ task' = [task EXCEPT ![k].at =
                          IF k \in Approvals THEN "reviewing" ELSE "idle"]
  <2>1. /\ \A j \in Commands : j # k => task'[j] = task[j]
        /\ task'[k].at = IF k \in Approvals THEN "reviewing" ELSE "idle"
        /\ task'[k].base = task[k].base
    BY <1>4 DEF IInv, TypeOK
  <2>2. /\ draft.command[k].target = session.revision + 1
        /\ draft.current = session.revision + 1
        /\ draft.current \in Nat /\ session.revision \in Nat
        /\ session'.revision = session.revision + 1
    BY <1>1, <1>4, AdvanceFacts
  <2>3. TypeOK'
    <3>1. task' \in [Commands -> TaskRow]
      BY <1>4, TaskMoves DEF Busy
    <3>2. session' \in [revision : Nat, version : Nat]
      BY <1>4, <2>2 DEF IInv, TypeOK
    <3> QED  BY <1>1, <3>1, <3>2 DEF IInv, TypeOK, members, server
  <2>4. Published'
    BY <1>1, <2>2 DEF IInv, Published, AtMostOneAhead
  <2>5. Owned'
    BY <1>1, <2>1 DEF IInv, Owned, Running, server
  <2>6. NoClaimLeaks'
    BY <1>1, <2>1 DEF IInv, NoClaimLeaks, Running, server
  <2>7. Handlers'
    <3>1. \A j \in Commands : draft.command[j].target \in Nat
      BY DEF IInv, TypeOK, CommandRow
    <3> QED  BY <1>1, <2>1, <2>2, <3>1 DEF IInv, Handlers
  <2>8. LeasedIsAgreed'
    BY <1>1, <1>4 DEF AdvanceAccepted, Leased, LeasedIsAgreed
  <2>9. ApprovedIsPublished'
    <3>1. session' \in [revision : Nat, version : Nat]
      BY <2>3 DEF TypeOK
    <3> QED  BY <1>1, <1>2, <2>2, <3>1, KeepsApproval DEF members
  <2> QED  BY <1>2, <2>3, <2>4, <2>5, <2>6, <2>7, <2>8, <2>9 DEF IInv
<1> QED  BY <1>3, <1>4 DEF Advance

LEMMA NextVersionOK ==
    ASSUME IInv, NextVersion
    PROVE  session' \in [revision : Nat, version : Nat] /\ session'.revision = session.revision
<1>1. session \in [revision : Nat, version : Nat]
  BY DEF IInv, TypeOK
<1>2. session.version + 1 \in Nat /\ session' = [session EXCEPT !.version = session.version + 1]
  BY <1>1 DEF NextVersion
<1> QED  BY <1>1, <1>2

LEMMA ReviewStepOK == ASSUME IInv, NEW k \in Commands, Review(k) PROVE IInv'
<1>1. /\ Running /\ task[k].at = "reviewing" /\ k \in Approvals
      /\ Status(draft, k) = "COMPLETED"
      /\ draft.command[k].target <= session.revision
      /\ proposal' = [proposal EXCEPT ![About[k]] = "APPROVED"]
      /\ NextVersion
      /\ task' = [task EXCEPT ![k].at = "idle"]
      /\ UNCHANGED <<draft, confirmation, invitation, access, lease, permit, server>>
  BY DEF Review, IInv, Handlers
<1>2. About[k] \in Proposals
  BY <1>1, CollaboratorsAreNamed
<1>3. /\ \A j \in Commands : j # k => task'[j] = task[j]
      /\ task'[k].at = "idle"
      /\ session'.revision = session.revision
  BY <1>1, NextVersionOK DEF IInv, TypeOK
<1>4. TypeOK'
  <2>1. task' \in [Commands -> TaskRow]
    BY <1>1, TaskMoves
  <2>2. session' \in [revision : Nat, version : Nat]
    BY <1>1, NextVersionOK
  <2>3. proposal' \in [Proposals -> {"NONE", "PENDING", "APPROVED", "REJECTED"}]
    BY <1>1 DEF IInv, TypeOK
  <2> QED  BY <1>1, <2>1, <2>2, <2>3 DEF IInv, TypeOK, server
<1>5. DraftOK(draft') /\ Extends(draft', draft)
  BY <1>1 DEF IInv, DraftOK, DraftRow, Extends
<1>6. Published' /\ Owned'
  BY <1>1, <1>3 DEF IInv, Published, AtMostOneAhead, Owned, Running, server
<1>7. NoClaimLeaks' /\ Handlers'
  BY <1>1, <1>3 DEF IInv, NoClaimLeaks, Handlers, Running, server
<1>8. LeasedIsAgreed'
  <2>1. \A x \in Proposals : proposal'[x] = "PENDING" => proposal[x] = "PENDING"
    BY <1>1 DEF IInv, TypeOK
  <2> QED  BY <1>1, <1>3, <2>1 DEF IInv, LeasedIsAgreed, Revoked, Agrees
<1>9. ApprovedIsPublished'
  <2>1. ASSUME NEW x \in Proposals, proposal'[x] = "APPROVED", x # About[k]
        PROVE  proposal[x] = "APPROVED"
    BY <1>1, <2>1 DEF IInv, TypeOK
  <2> QED  BY <1>1, <1>3, <2>1 DEF IInv, ApprovedIsPublished
<1> QED  BY <1>4, <1>5, <1>6, <1>7, <1>8, <1>9 DEF IInv

(* Steps of the members, the organizer and the planner leave the draft and *)
(* its handlers alone.                                                     *)
LEMMA SameDraft ==
    ASSUME IInv, UNCHANGED <<draft, task, process, started>>,
           session'.revision = session.revision
    PROVE  DraftOK(draft') /\ Published' /\ Owned' /\ NoClaimLeaks' /\ Handlers'
<1>1. DraftOK(draft') /\ Published' /\ Owned'
  BY DEF IInv, DraftOK, DraftRow, Numbered, Held, Written,
         Published, AtMostOneAhead, Owned, Running
<1>2. NoClaimLeaks' /\ Handlers'
  BY DEF IInv, NoClaimLeaks, Handlers, Running
<1> QED  BY <1>1, <1>2

(* Approvals stay published where nothing becomes approved.                *)
LEMMA SameApprovals ==
    ASSUME IInv, UNCHANGED draft, session'.revision = session.revision,
           \A x \in Proposals : proposal'[x] = "APPROVED" => proposal[x] = "APPROVED"
    PROVE  ApprovedIsPublished'
  BY DEF IInv, ApprovedIsPublished

LEMMA ProposeStep ==
    ASSUME IInv, NEW m \in Members, NEW x \in Proposals, Propose(m, x)
    PROVE  IInv'
<1>1. /\ proposal' = [proposal EXCEPT ![x] = "PENDING"] /\ ~Leased
      /\ NextVersion
      /\ UNCHANGED <<draft, confirmation, invitation, access, lease, permit, task, server>>
  BY DEF Propose
<1>2. /\ session' \in [revision : Nat, version : Nat]
      /\ session'.revision = session.revision
      /\ \A y \in Proposals : proposal'[y] = "APPROVED" => proposal[y] = "APPROVED"
  BY <1>1, NextVersionOK DEF IInv, TypeOK
<1>3. TypeOK'
  BY <1>1, <1>2 DEF IInv, TypeOK, server
<1>4. LeasedIsAgreed'
  BY <1>1 DEF Leased, LeasedIsAgreed
<1> QED  BY <1>1, <1>2, <1>3, <1>4, SameDraft, SameApprovals DEF IInv, server

LEMMA RejectStep == ASSUME IInv, NEW x \in Proposals, Reject(x) PROVE IInv'
<1>1. /\ proposal' = [proposal EXCEPT ![x] = "REJECTED"]
      /\ NextVersion
      /\ UNCHANGED <<draft, confirmation, invitation, access, lease, permit, task, server>>
  BY DEF Reject
<1>2. /\ session' \in [revision : Nat, version : Nat]
      /\ session'.revision = session.revision
      /\ \A y \in Proposals : proposal'[y] \in {"APPROVED", "PENDING"}
                                 => proposal[y] = proposal'[y]
  BY <1>1, NextVersionOK DEF IInv, TypeOK
<1>3. TypeOK'
  BY <1>1, <1>2 DEF IInv, TypeOK, server
<1>4. LeasedIsAgreed'
  BY <1>1, <1>2 DEF IInv, LeasedIsAgreed, Revoked, Agrees
<1> QED  BY <1>1, <1>2, <1>3, <1>4, SameDraft, SameApprovals DEF IInv, server

LEMMA ConfirmStep == ASSUME IInv, NEW m \in Participants, Confirm(m) PROVE IInv'
<1> DEFINE c == [revision |-> draft.current, shared |-> CurrentContent(draft).shared,
                 member |-> CurrentContent(draft).member[m]]
<1>1. /\ confirmation' = [confirmation EXCEPT ![m] = c] /\ ~Leased
      /\ NextVersion
      /\ UNCHANGED <<draft, proposal, invitation, access, lease, permit, task, server>>
  BY DEF Confirm
<1>2. /\ session' \in [revision : Nat, version : Nat]
      /\ session'.revision = session.revision
  BY <1>1, NextVersionOK
<1>3. TypeOK'
  <2>1. CurrentContent(draft) \in Content /\ draft.current \in Nat
    BY DEF CurrentContent, IInv, DraftOK, DraftRow, Numbered
  <2>2. c \in [revision : Nat, shared : Nat, member : Nat]
    BY <2>1 DEF Content
  <2> QED  BY <1>1, <1>2, <2>2 DEF IInv, TypeOK, server
<1>4. LeasedIsAgreed'
  BY <1>1 DEF Leased, LeasedIsAgreed
<1> QED  BY <1>1, <1>2, <1>3, <1>4, SameDraft, SameApprovals DEF IInv, server

LEMMA AccessStepOK == ASSUME IInv, NEW m \in Members, AccessStep(m) PROVE IInv'
<1>1. /\ ~Leased
      /\ session'.revision = session.revision
      /\ session' \in [revision : Nat, version : Nat]
      /\ UNCHANGED <<draft, confirmation, proposal, lease, permit, task, server>>
  <2>1. ~Leased /\ UNCHANGED <<draft, confirmation, proposal, lease, permit, task, server>>
    BY DEF AccessStep, Invite, Redeem, Revoke
  <2>2. NextVersion \/ UNCHANGED session
    BY DEF AccessStep, Invite, Redeem, Revoke
  <2> QED  BY <2>1, <2>2, NextVersionOK DEF IInv, TypeOK
<1>2. TypeOK'
  <2>1. /\ invitation' \in [Members -> {"NONE", "ACTIVE", "REDEEMED", "REVOKED"}]
        /\ access' \in [Members -> {"NONE", "ACTIVE", "REVOKED"}]
    BY DEF AccessStep, Invite, Redeem, Revoke, IInv, TypeOK
  <2> QED  BY <1>1, <2>1 DEF IInv, TypeOK, server
<1>3. LeasedIsAgreed'
  BY <1>1 DEF Leased, LeasedIsAgreed
<1> QED  BY <1>1, <1>2, <1>3, SameDraft, SameApprovals DEF IInv, server

LEMMA PlanStepOK == ASSUME IInv, NEW op \in Operations, PlanStep(op) PROVE IInv'
<1>1. UNCHANGED <<draft, session, members, task, server>>
  BY DEF PlanStep, PlanBegin, PlanEnd, LeaseExpires
<1>2. TypeOK'
  <2>1. draft.current \in Nat /\ NoRevision \in Nat
    BY DEF IInv, TypeOK, NoRevision
  <2>2. /\ lease \in [Operations -> [status : {"NONE", "ACTIVE", "EXPIRED", "DONE"},
                                     revision : Nat]]
        /\ permit \in [Operations -> Nat]
    BY DEF IInv, TypeOK
  <2>3. CASE PlanBegin(op)
    <3>1. /\ lease' \in [Operations -> [status : {"NONE", "ACTIVE", "EXPIRED", "DONE"},
                                        revision : Nat]]
          /\ permit' \in [Operations -> Nat]
      BY <2>1, <2>2, <2>3 DEF PlanBegin
    <3> QED  BY <1>1, <3>1 DEF IInv, TypeOK, members, server
  <2>4. CASE PlanEnd(op)
    <3>1. /\ lease' \in [Operations -> [status : {"NONE", "ACTIVE", "EXPIRED", "DONE"},
                                        revision : Nat]]
          /\ permit' \in [Operations -> Nat]
      BY <2>1, <2>2, <2>4 DEF PlanEnd
    <3> QED  BY <1>1, <3>1 DEF IInv, TypeOK, members, server
  <2>5. CASE LeaseExpires(op)
    <3>1. /\ lease' \in [Operations -> [status : {"NONE", "ACTIVE", "EXPIRED", "DONE"},
                                        revision : Nat]]
          /\ permit' = permit
      BY <2>2, <2>5 DEF LeaseExpires
    <3> QED  BY <1>1, <2>2, <3>1 DEF IInv, TypeOK, members, server
  <2> QED  BY <2>3, <2>4, <2>5 DEF PlanStep
<1>3. LeasedIsAgreed'
  <2>1. CASE PlanBegin(op)
    <3>1. /\ CanPlan /\ ~Leased
          /\ lease' = [lease EXCEPT ![op] = [status |-> "ACTIVE", revision |-> draft.current]]
      BY <2>1 DEF PlanBegin, MayAcquire
    <3>2. \A o \in Operations : lease'[o].status = "ACTIVE" =>
             o = op /\ lease'[o].revision = draft.current
      BY <3>1 DEF Leased, IInv, TypeOK
    <3>3. /\ session.revision = draft.current
          /\ \A m \in Participants : ~Revoked(m) /\ Agrees(m, draft.rev[draft.current])
          /\ \A x \in Proposals : proposal[x] # "PENDING"
      BY <3>1 DEF CanPlan, Confirmed, CurrentContent
    <3> QED  BY <1>1, <3>2, <3>3 DEF LeasedIsAgreed, Revoked, Agrees, members
  <2>2. CASE PlanEnd(op) \/ LeaseExpires(op)
    <3>1. \A o \in Operations : lease'[o].status = "ACTIVE" => lease'[o] = lease[o]
      BY <2>2 DEF PlanEnd, LeaseExpires, IInv, TypeOK
    <3> QED  BY <1>1, <3>1 DEF IInv, LeasedIsAgreed, Revoked, Agrees, members
  <2> QED  BY <2>1, <2>2 DEF PlanStep
<1> QED
  BY <1>1, <1>2, <1>3, SameDraft, SameApprovals DEF IInv, members, server

LEMMA CrashStep == ASSUME IInv, Crash PROVE IInv'
<1>1. /\ process' = NoOwner
      /\ task' = [k \in Commands |-> [task[k] EXCEPT !.at = "idle"]]
      /\ permit' = [op \in Operations |-> NoRevision]
      /\ UNCHANGED <<draft, session, members, lease, started>>
  BY DEF Crash
<1>0. \A k \in Commands : task[k] \in TaskRow
  BY DEF IInv, TypeOK
<1>2. \A k \in Commands : task'[k].at = "idle" /\ task'[k] \in TaskRow
  <2>1. \A k \in Commands : task'[k] = [task[k] EXCEPT !.at = "idle"]
    BY <1>1
  <2> QED  BY <1>0, <2>1 DEF TaskRow
<1>3. TypeOK'
  <2>1. task' \in [Commands -> TaskRow]
    BY <1>1, <1>2
  <2> QED  BY <1>1, <2>1 DEF IInv, TypeOK, members, NoRevision
<1>4. DraftOK(draft') /\ Extends(draft', draft)
  BY <1>1 DEF IInv, DraftOK, DraftRow, Extends
<1>5. Published' /\ Owned'
  BY <1>1, <1>2 DEF IInv, Published, AtMostOneAhead, Owned, Running
<1>6. NoClaimLeaks' /\ Handlers'
  BY <1>1, <1>2 DEF NoClaimLeaks, Running, Handlers
<1>7. LeasedIsAgreed'
  BY <1>1, <1>4, KeepsAgreement
<1>8. ApprovedIsPublished'
  BY <1>1, SameApprovals DEF members
<1> QED  BY <1>3, <1>4, <1>5, <1>6, <1>7, <1>8 DEF IInv

(* Every claim found by a new process is an orphan.                        *)
LEMMA StartStep == ASSUME IInv, NEW p \in Owners, Start(p) PROVE IInv'
<1>1. /\ ~Running /\ p \notin started /\ process' = p
      /\ started' = started \cup {p}
      /\ draft' = Recovered(draft, p)
      /\ UNCHANGED <<session, members, lease, permit, task>>
  BY DEF Start
<1>2. /\ DraftOK(draft') /\ Extends(draft', draft)
      /\ draft'.current = draft.current
      /\ \A k \in Commands : Status(draft', k) = "CLAIMED" =>
            Status(draft, k) = "CLAIMED" /\ draft.command[k].owner = p
  BY <1>1, RecoveredOK DEF IInv
<1>3. \A k \in Commands : Status(draft', k) # "CLAIMED" /\ task'[k].at = "idle"
  BY <1>1, <1>2 DEF IInv, Owned
<1>4. TypeOK'
  BY <1>1, <1>2 DEF IInv, TypeOK, DraftOK, DraftRow, members
<1>5. Published'
  BY <1>1, <1>2, <1>3 DEF IInv, Published, AtMostOneAhead
<1>6. Owned' /\ NoClaimLeaks'
  BY <1>3 DEF Owned, NoClaimLeaks
<1>7. Handlers'
  BY <1>3 DEF Handlers
<1>8. LeasedIsAgreed'
  BY <1>1, <1>2, KeepsAgreement
<1>9. ApprovedIsPublished'
  BY <1>1, <1>2, KeepsApproval DEF members, IInv, TypeOK
<1> QED  BY <1>2, <1>4, <1>5, <1>6, <1>7, <1>8, <1>9 DEF IInv

LEMMA StutterStep == ASSUME IInv, UNCHANGED vars PROVE IInv'
<1>1. DraftOK(draft') /\ Published' /\ Owned' /\ NoClaimLeaks' /\ Handlers'
  BY SameDraft DEF vars
<1>2. TypeOK' /\ ApprovedIsPublished'
  BY SameApprovals DEF vars, IInv, TypeOK
<1>3. LeasedIsAgreed'
  BY DEF vars, IInv, LeasedIsAgreed, Revoked, Agrees
<1> QED  BY <1>1, <1>2, <1>3 DEF IInv

-----------------------------------------------------------------------------
(* The invariants of the runs, for every value of the constants.           *)

LEMMA NextIInv == IInv /\ [Next]_vars => IInv'
<1> SUFFICES ASSUME IInv, [Next]_vars PROVE IInv'
  OBVIOUS
<1>1. ASSUME NEW k \in Commands, AnswerStep(k) PROVE IInv'
  BY <1>1, SendStep, UnderstoodStep, NotUnderstoodStep DEF AnswerStep
<1>2. ASSUME NEW k \in Commands, ReviewStep(k) PROVE IInv'
  BY <1>2, ApproveStep, PatchStep, ReviewStepOK DEF ReviewStep
<1>3. ASSUME NEW k \in Commands, Advance(k) PROVE IInv'
  BY <1>3, AdvanceStep
<1>4. ASSUME NEW x \in Proposals, ProposalStep(x) PROVE IInv'
  BY <1>4, ProposeStep, RejectStep DEF ProposalStep
<1>5. ASSUME NEW m \in Participants, Confirm(m) PROVE IInv'
  BY <1>5, ConfirmStep
<1>6. ASSUME NEW m \in Members, AccessStep(m) PROVE IInv'
  BY <1>6, AccessStepOK
<1>7. ASSUME NEW op \in Operations, PlanStep(op) PROVE IInv'
  BY <1>7, PlanStepOK
<1>8. ASSUME NEW p \in Owners, Start(p) PROVE IInv'
  BY <1>8, StartStep
<1> QED
  BY <1>1, <1>2, <1>3, <1>4, <1>5, <1>6, <1>7, <1>8, CrashStep, StutterStep DEF Next

(* The inductive invariant holds in every state of every execution.        *)
THEOREM Invariance == Spec => []IInv
  BY InitIInv, NextIInv, PTL DEF Spec

(* Types: the columns of all tables and the state of the handlers.         *)
THEOREM TypeCorrect == Spec => []TypeOK
<1>1. IInv => TypeOK
  BY DEF IInv
<1> QED  BY <1>1, Invariance, PTL

(* A pending revision of trip_draft_heads is backed by exactly one claimed *)
(* command, and none is claimed without it.                                *)
THEOREM ClaimsHeld == Spec => []ClaimsAreHeld
<1>1. IInv => ClaimsAreHeld
  BY DEF IInv, DraftOK, Held, ClaimsAreHeld
<1> QED  BY <1>1, Invariance, PTL

(* Claims belong to handlers at work in the running process, whatever ends *)
(* a handler and whenever the server crashes.                              *)
THEOREM ClaimsEndWithHandlers == Spec => []NoClaimLeaks
<1>1. IInv => NoClaimLeaks
  BY DEF IInv
<1> QED  BY <1>1, Invariance, PTL

(* Each revision of the draft was written by one command, however often a  *)
(* request is retried.                                                     *)
THEOREM AnswersApplyOnce == Spec => []OneWriterPerRevision
<1>1. IInv => OneWriterPerRevision
  BY DEF IInv, DraftOK, Written, OneWriterPerRevision
<1> QED  BY <1>1, Invariance, PTL

(* A lease in force is for the published revision, which everybody with    *)
(* access agrees to, and is the only one.                                  *)
THEOREM PlansAreAgreed == Spec => []LeasedIsAgreed
<1>1. IInv => LeasedIsAgreed
  BY DEF IInv
<1> QED  BY <1>1, Invariance, PTL

(* A proposal shown as approved is in the published revision.              *)
THEOREM ApprovalsArePublished == Spec => []ApprovedIsPublished
<1>1. IInv => ApprovedIsPublished
  BY DEF IInv
<1> QED  BY <1>1, Invariance, PTL

-----------------------------------------------------------------------------
(* Nobody else's answer makes a confirmation stale.                        *)

(* A saved answer differs from the revision before it in the part of its   *)
(* author only.                                                            *)
LEMMA OnlyTheAuthorsPart ==
    ASSUME IInv, NEW k \in Commands, Understood(k),
           NEW m \in Participants, m # Author[k]
    PROVE  /\ CurrentContent(draft').shared = CurrentContent(draft).shared
           /\ CurrentContent(draft').member[m] = CurrentContent(draft).member[m]
<1>1. /\ k \in Answers /\ task[k].at = "parsing" /\ Completable(draft, k)
  BY DEF Understood
<1>2. PICK part \in {draft.command[k].target, ReadBefore(k).member[Author[k]]} :
         draft' = Completed(draft, k, Merged(ReadBefore(k), Author[k], part))
  BY DEF Understood
<1>3. /\ ReadBefore(k) = CurrentContent(draft) /\ ReadBefore(k) \in Content
      /\ draft.command[k].target \in Nat /\ Author[k] \in Participants
  BY <1>1, ReadIsContent, CommandsAreNamed
<1> DEFINE c == Merged(ReadBefore(k), Author[k], part)
<1>4. /\ c \in Content /\ c.shared = ReadBefore(k).shared
      /\ c.member[m] = ReadBefore(k).member[m]
  BY <1>2, <1>3 DEF Merged, Content
<1>5. CurrentContent(draft') = c
  BY <1>1, <1>2, <1>4, CompletedOK DEF IInv, CurrentContent
<1> QED  BY <1>3, <1>4, <1>5

(* The merge of an answer keeps what the draft says of everybody else, so  *)
(* only a member's own answer, an approved change or a new confirmation    *)
(* changes whether the member agrees with the draft.                       *)
THEOREM ConfirmationsLast == Spec => OthersStillAgree
<1> DEFINE Kept ==
      \A m \in Participants :
          Agrees(m, CurrentContent(draft)) /\ ~Agrees(m, CurrentContent(draft))'
          => \/ confirmation'[m] # confirmation[m]
             \/ \E k \in Commands :
                   /\ Status(draft, k) # Status(draft', k)
                   /\ k \in Approvals \/ Author[k] = m
<1>1. ASSUME UNCHANGED <<draft, confirmation>> PROVE Kept
  BY <1>1 DEF Agrees, CurrentContent
<1>2. ASSUME NEW d, draft' = d, d.current = draft.current, d.rev = draft.rev,
             UNCHANGED confirmation
      PROVE  Kept
  BY <1>2 DEF Agrees, CurrentContent
<1>3. ASSUME IInv, NEW k \in Commands, Understood(k) PROVE Kept
  <2>1. Completable(draft, k) /\ UNCHANGED confirmation /\ k \in Answers
    BY <1>3 DEF Understood, members
  <2>2. Status(draft, k) # Status(draft', k)
    <3>1. PICK part \in {draft.command[k].target, ReadBefore(k).member[Author[k]]} :
             draft' = Completed(draft, k, Merged(ReadBefore(k), Author[k], part))
      BY <1>3 DEF Understood
    <3>2. /\ ReadBefore(k) \in Content /\ draft.command[k].target \in Nat
          /\ Author[k] \in Participants
      BY <1>3, <2>1, ReadIsContent, CommandsAreNamed DEF Understood
    <3>3. Merged(ReadBefore(k), Author[k], part) \in Content
      BY <3>1, <3>2 DEF Merged, Content
    <3>4. Status(draft', k) = "COMPLETED"
      BY <1>3, <2>1, <3>1, <3>3, CompletedOK DEF IInv
    <3> QED  BY <2>1, <3>4 DEF Completable
  <2>3. ASSUME NEW m \in Participants, m # Author[k],
               Agrees(m, CurrentContent(draft))
        PROVE  Agrees(m, CurrentContent(draft))'
    BY <1>3, <2>1, <2>3, OnlyTheAuthorsPart DEF Agrees
  <2> QED  BY <2>1, <2>2, <2>3
<1>4. ASSUME IInv, NEW k \in Commands, task[k].at \in {"parsing", "patching"},
             draft' = Released(draft, k), UNCHANGED confirmation
      PROVE  Kept
  BY <1>2, <1>4, ReleasedOK DEF IInv
<1>5. ASSUME IInv, NEW k \in Commands, NEW p, UNCHANGED confirmation,
             \/ draft' = Claimed(Recovered(draft, p), k, p)
             \/ draft' = Recovered(draft, p)
      PROVE  Kept
  <2>1. /\ Recovered(draft, p).current = draft.current
        /\ Recovered(draft, p).rev = draft.rev
        /\ DraftRow(Recovered(draft, p))
    BY <1>5, RecoveredOK DEF IInv, DraftOK
  <2>2. draft'.current = draft.current /\ draft'.rev = draft.rev
    BY <1>5, <2>1 DEF Claimed, DraftRow
  <2> QED  BY <1>2, <1>5, <2>2
<1>6. ASSUME IInv, NEW k \in Commands, Patch(k) PROVE Kept
  <2>1. UNCHANGED confirmation /\ task[k].at = "patching" /\ k \in Approvals
    BY <1>6 DEF Patch, members, IInv, Handlers
  <2>2. CASE draft' = Released(draft, k)
    BY <1>4, <1>6, <2>1, <2>2
  <2>3. CASE /\ Completable(draft, k)
             /\ \E part \in {draft.command[k].target, ReadBefore(k).shared} :
                   draft' = Completed(draft, k, [ReadBefore(k) EXCEPT !.shared = part])
    <3>1. Status(draft', k) = "COMPLETED"
      <4>1. PICK part \in {draft.command[k].target, ReadBefore(k).shared} :
               draft' = Completed(draft, k, [ReadBefore(k) EXCEPT !.shared = part])
        BY <2>3
      <4>2. [ReadBefore(k) EXCEPT !.shared = part] \in Content
        BY <1>6, <2>1, <2>3, ReadIsContent DEF Content
      <4> QED  BY <1>6, <2>3, <4>1, <4>2, CompletedOK DEF IInv
    <3>2. Status(draft, k) = "CLAIMED"
      BY <2>3 DEF Completable
    <3> QED  BY <2>1, <3>1, <3>2
  <2> QED  BY <1>6, <2>2, <2>3 DEF Patch
<1>7. ASSUME IInv, NEW m \in Participants, Confirm(m) PROVE Kept
  BY <1>7 DEF Confirm, Agrees, CurrentContent, IInv, TypeOK
<1>8. IInv /\ [Next]_vars => Kept
  <2> SUFFICES ASSUME IInv, [Next]_vars PROVE Kept
    OBVIOUS
  <2>1. ASSUME NEW k \in Commands, AnswerStep(k) PROVE Kept
    <3>1. CASE k \in Answers /\ Send(k)
      <4>1. /\ UNCHANGED confirmation
            /\ \/ draft' = Claimed(Recovered(draft, process), k, process)
               \/ draft' = Recovered(draft, process)
        BY <3>1 DEF Send, members
      <4> QED  BY <1>5, <4>1
    <3>2. CASE NotUnderstood(k)
      BY <1>4, <3>2 DEF NotUnderstood, members
    <3> QED  BY <1>3, <2>1, <3>1, <3>2 DEF AnswerStep
  <2>2. ASSUME NEW k \in Commands, ReviewStep(k) PROVE Kept
    <3>1. CASE k \in Approvals /\ Approve(k)
      <4>1. /\ UNCHANGED confirmation
            /\ \/ draft' = Claimed(Recovered(draft, process), k, process)
               \/ draft' = Recovered(draft, process)
        BY <3>1 DEF Approve, members
      <4> QED  BY <1>5, <4>1
    <3>2. CASE Review(k)
      BY <1>1, <3>2 DEF Review
    <3> QED  BY <1>6, <2>2, <3>1, <3>2 DEF ReviewStep
  <2>3. ASSUME NEW k \in Commands, Advance(k) PROVE Kept
    BY <1>1, <2>3 DEF Advance, members
  <2>4. ASSUME NEW x \in Proposals, ProposalStep(x) PROVE Kept
    BY <1>1, <2>4 DEF ProposalStep, Propose, Reject
  <2>5. ASSUME NEW m \in Members, AccessStep(m) PROVE Kept
    BY <1>1, <2>5 DEF AccessStep, Invite, Redeem, Revoke
  <2>6. ASSUME NEW op \in Operations, PlanStep(op) PROVE Kept
    BY <1>1, <2>6 DEF PlanStep, PlanBegin, PlanEnd, LeaseExpires, members
  <2>7. CASE Crash
    BY <1>1, <2>7 DEF Crash, members
  <2>8. ASSUME NEW p \in Owners, Start(p) PROVE Kept
    <3>1. UNCHANGED confirmation /\ draft' = Recovered(draft, p)
      BY <2>8 DEF Start, members
    <3>2. draft'.current = draft.current /\ draft'.rev = draft.rev
      BY <3>1, RecoveredOK DEF IInv
    <3> QED  BY <1>2, <3>1, <3>2
  <2>9. CASE UNCHANGED vars
    BY <1>1, <2>9 DEF vars, members
  <2> QED
    BY <1>7, <2>1, <2>2, <2>3, <2>4, <2>5, <2>6, <2>7, <2>8, <2>9 DEF Next
<1>9. IInv /\ [Next]_vars => [Kept]_vars
  BY <1>8
<1> QED  BY <1>9, Invariance, PTL DEF Spec, OthersStillAgree

-----------------------------------------------------------------------------
(* What the contract sees.                                                 *)
Granted == {op \in Operations : lease[op].status = "ACTIVE"}

SameView == UNCHANGED <<draft.current, session.revision, Granted>>

LEMMA SameViewStutters == SameView => UNCHANGED Contract!vars
  BY DEF SameView, Granted, Contract!vars

LEMMA ContractInit == Init => Contract!Init
  BY DEF Init, FirstDraft, NoLease, Contract!Init

(* A claim or a release of it is invisible.                                *)
LEMMA RecoveryIsInvisible ==
    ASSUME IInv, NEW p,
           \/ draft' = Recovered(draft, p)
           \/ \E k \in Commands : draft' = Claimed(Recovered(draft, p), k, p),
           UNCHANGED <<session, lease>>
    PROVE  SameView
<1>1. DraftRow(Recovered(draft, p)) /\ Recovered(draft, p).current = draft.current
  BY RecoveredOK DEF IInv, DraftOK
<1>2. draft'.current = draft.current
  BY <1>1 DEF Claimed, DraftRow
<1> QED  BY <1>2 DEF SameView, Granted

LEMMA ReleaseIsInvisible ==
    ASSUME IInv, NEW k \in Commands, draft' = Released(draft, k), UNCHANGED <<session, lease>>
    PROVE  SameView
  BY ReleasedOK DEF IInv, SameView, Granted

(* A revision is saved on the published one.                               *)
LEMMA SaveImplements ==
    ASSUME IInv, NEW k \in Commands, Completable(draft, k), NEW c \in Content,
           draft' = Completed(draft, k, c), UNCHANGED <<session, lease>>
    PROVE  Contract!Save
<1>1. draft.current = session.revision
  BY DEF Completable, IInv, Published
<1>2. draft'.current = draft.current + 1
  BY CompletedOK DEF IInv
<1> QED  BY <1>1, <1>2 DEF Contract!Save

LEMMA UnderstoodImplements ==
    ASSUME IInv, NEW k \in Commands, Understood(k)
    PROVE  Contract!Save
<1>1. /\ k \in Answers /\ task[k].at = "parsing" /\ Completable(draft, k)
      /\ UNCHANGED <<session, lease>>
  BY DEF Understood
<1>2. PICK part \in {draft.command[k].target, ReadBefore(k).member[Author[k]]} :
         draft' = Completed(draft, k, Merged(ReadBefore(k), Author[k], part))
  BY DEF Understood
<1>3. ReadBefore(k) \in Content /\ draft.command[k].target \in Nat /\ Author[k] \in Participants
  BY <1>1, ReadIsContent, CommandsAreNamed
<1>4. Merged(ReadBefore(k), Author[k], part) \in Content
  BY <1>2, <1>3 DEF Merged, Content
<1> QED  BY <1>1, <1>2, <1>4, SaveImplements

LEMMA PatchImplements ==
    ASSUME IInv, NEW k \in Commands, Patch(k)
    PROVE  Contract!Save \/ SameView
<1>1. task[k].at = "patching" /\ UNCHANGED <<session, lease>>
  BY DEF Patch
<1>2. CASE draft' = Released(draft, k)
  BY <1>1, <1>2, ReleaseIsInvisible
<1>3. ASSUME Completable(draft, k),
             NEW part \in {draft.command[k].target, ReadBefore(k).shared},
             draft' = Completed(draft, k, [ReadBefore(k) EXCEPT !.shared = part])
      PROVE  Contract!Save
  <2>1. ReadBefore(k) \in Content /\ draft.command[k].target \in Nat
    BY <1>1, <1>3, ReadIsContent
  <2>2. [ReadBefore(k) EXCEPT !.shared = part] \in Content
    BY <1>3, <2>1 DEF Content
  <2> QED  BY <1>1, <1>3, <2>2, SaveImplements
<1> QED  BY <1>2, <1>3 DEF Patch

(* The session moves to the saved revision, and not under a lease.         *)
LEMMA AdvanceImplements ==
    ASSUME IInv, NEW k \in Commands, Advance(k)
    PROVE  Contract!Publish \/ SameView
<1>1. task[k].at = "advancing" /\ UNCHANGED <<draft, lease>>
  BY DEF Advance
<1>2. CASE UNCHANGED session
  BY <1>1, <1>2 DEF SameView, Granted
<1>3. CASE AdvanceAccepted(k) /\ session'.revision = draft.command[k].target
  <2>1. /\ draft.command[k].target = session.revision + 1
        /\ draft.current = session.revision + 1
    BY <1>1, <1>3, AdvanceFacts
  <2>2. {op \in Operations : lease[op].status = "ACTIVE"} = {}
    BY <1>3 DEF AdvanceAccepted, Leased
  <2> QED  BY <1>1, <1>3, <2>1, <2>2 DEF Contract!Publish
<1> QED  BY <1>2, <1>3 DEF Advance

(* A lease is granted for the published draft when none is in force, and   *)
(* ends by completion or by the clock.                                     *)
LEMMA PlanImplements ==
    ASSUME IInv, NEW op \in Operations, PlanStep(op)
    PROVE  Contract!Grant(op) \/ Contract!End(op) \/ SameView
<1>1. UNCHANGED <<draft, session>> /\ DOMAIN lease = Operations
  BY DEF PlanStep, PlanBegin, PlanEnd, LeaseExpires, IInv, TypeOK
<1>2. CASE PlanBegin(op)
  <2>1. /\ session.revision = draft.current /\ ~Leased
        /\ lease' = [lease EXCEPT ![op] = [status |-> "ACTIVE", revision |-> draft.current]]
    BY <1>2 DEF PlanBegin, MayAcquire, CanPlan
  <2>2. Granted = {} /\ Granted' = {op}
    BY <1>1, <2>1 DEF Granted, Leased
  <2> QED  BY <1>1, <2>1, <2>2 DEF Contract!Grant, Granted
<1>3. CASE PlanEnd(op) \/ LeaseExpires(op)
  <2>1. /\ \A o \in Operations : o # op => lease'[o] = lease[o]
        /\ lease'[op].status # "ACTIVE"
    BY <1>1, <1>3 DEF PlanEnd, LeaseExpires, IInv, TypeOK
  <2>2. CASE lease[op].status = "ACTIVE"
    <3>1. Granted = {op} /\ Granted' = {}
      BY <2>1, <2>2 DEF Granted, IInv, LeasedIsAgreed
    <3> QED  BY <1>1, <3>1 DEF Contract!End, Granted
  <2>3. CASE lease[op].status # "ACTIVE"
    <3>1. Granted' = Granted
      BY <2>1, <2>3 DEF Granted
    <3> QED  BY <1>1, <3>1 DEF SameView, Granted
  <2> QED  BY <2>2, <2>3
<1> QED  BY <1>2, <1>3 DEF PlanStep

(* Every execution of the collaboration, with its retries, crashes and     *)
(* expiring leases, is an execution of RevisionContract.                   *)
THEOREM CollaborationImplementsContract == Spec => ImplementsContract
<1>1. IInv /\ [Next]_vars => [Contract!Next]_Contract!vars
  <2> SUFFICES ASSUME IInv, [Next]_vars PROVE Contract!Next \/ SameView
    BY SameViewStutters
  <2>1. ASSUME NEW k \in Commands, AnswerStep(k) PROVE Contract!Save \/ SameView
    <3>1. CASE Send(k)
      <4>1. /\ UNCHANGED <<session, lease>>
            /\ \/ draft' = Recovered(draft, process)
               \/ draft' = Claimed(Recovered(draft, process), k, process)
        BY <3>1 DEF Send
      <4> QED  BY <4>1, RecoveryIsInvisible
    <3>2. CASE Understood(k)
      BY <3>2, UnderstoodImplements
    <3>3. CASE NotUnderstood(k)
      BY <3>3, ReleaseIsInvisible DEF NotUnderstood
    <3> QED  BY <2>1, <3>1, <3>2, <3>3 DEF AnswerStep
  <2>2. ASSUME NEW k \in Commands, ReviewStep(k) PROVE Contract!Save \/ SameView
    <3>1. CASE Approve(k)
      <4>1. /\ UNCHANGED <<session, lease>>
            /\ \/ draft' = Recovered(draft, process)
               \/ draft' = Claimed(Recovered(draft, process), k, process)
        BY <3>1 DEF Approve
      <4> QED  BY <4>1, RecoveryIsInvisible
    <3>2. CASE Patch(k)
      BY <3>2, PatchImplements
    <3>3. CASE Review(k)
      BY <3>3, NextVersionOK DEF Review, SameView, Granted
    <3> QED  BY <2>2, <3>1, <3>2, <3>3 DEF ReviewStep
  <2>3. ASSUME NEW k \in Commands, Advance(k) PROVE Contract!Publish \/ SameView
    BY <2>3, AdvanceImplements
  <2>4. ASSUME NEW x \in Proposals, ProposalStep(x) PROVE SameView
    BY <2>4, NextVersionOK DEF ProposalStep, Propose, Reject, SameView, Granted
  <2>5. ASSUME NEW m \in Participants, Confirm(m) PROVE SameView
    BY <2>5, NextVersionOK DEF Confirm, SameView, Granted
  <2>6. ASSUME NEW m \in Members, AccessStep(m) PROVE SameView
    BY <2>6, NextVersionOK DEF AccessStep, Invite, Redeem, Revoke, SameView, Granted
  <2>7. ASSUME NEW op \in Operations, PlanStep(op)
        PROVE  Contract!Grant(op) \/ Contract!End(op) \/ SameView
    BY <2>7, PlanImplements
  <2>8. CASE Crash
    BY <2>8 DEF Crash, SameView, Granted
  <2>9. ASSUME NEW p \in Owners, Start(p) PROVE SameView
    BY <2>9, RecoveryIsInvisible DEF Start
  <2>10. CASE UNCHANGED vars
    BY <2>10 DEF vars, SameView, Granted
  <2> QED
    BY <2>1, <2>2, <2>3, <2>4, <2>5, <2>6, <2>7, <2>8, <2>9, <2>10
    DEF Next, Contract!Next
<1> QED
  BY <1>1, ContractInit, Invariance, PTL DEF Spec, ImplementsContract, Contract!Spec

=============================================================================
