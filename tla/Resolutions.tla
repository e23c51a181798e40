---------------------------- MODULE Resolutions ----------------------------
(***************************************************************************)
(* Members and the organizer settle the open items of a draft by choosing  *)
(* relaxations (_resolve of collaboration_service.py).  The handler writes *)
(* its idempotency record, changes the draft, advances the session, writes *)
(* an audit row and completes its record, each in a transaction of its     *)
(* own.  It never awaits, so only a crash comes between them.  An answer   *)
(* that is being parsed, or a lease, makes it stop on its way.             *)
(*                                                                         *)
(* The transactions of the draft are those of DraftRevisions; a request is *)
(* a command of Approvals, and a process is a number that each start       *)
(* increases.                                                              *)
(***************************************************************************)
EXTENDS DraftRevisions, Sequences

CONSTANTS
    None,
    Items,          \* what may keep the draft from being agreed
    MaxRevision,    \* bound: no revision after this one is claimed
    MaxVersion      \* bound: no request is taken at this session version

VARIABLES
    draft,      \* the rows of the revision store
    items,      \* the items of the current revision
    session,    \* collaboration_sessions: current_revision and version
    leased,     \* whether a planning operation holds its lease
    record,     \* the idempotency rows of RESOLVE_CONFIRMATION
    advanced,   \* the requests that have a row of ADVANCE_REVISION
    audits,     \* collaboration_resolution_audit, by request
    handler,    \* the request whose handler runs and its next step
    process     \* the running process

vars == <<draft, items, session, leased, record, advanced, audits, handler, process>>

NoRecord == [status |-> "NONE", item |-> None, base |-> 0, version |-> 0]

Init ==
    /\ draft = FirstDraft
    /\ items \in SUBSET Items
    /\ session = [revision |-> 1, version |-> 1]
    /\ leased = FALSE
    /\ record = [q \in Approvals |-> NoRecord]
    /\ advanced = {}
    /\ audits = [q \in Approvals |-> <<>>]
    /\ handler = None
    /\ process = 1

At(q, step) == handler = [of |-> q, step |-> step]

GoOn(q, step) == handler' = [of |-> q, step |-> step]

Stop == handler' = None

-----------------------------------------------------------------------------
(* The handler.                                                            *)

\* A new request: its item is open, and it knows the session as it is.
Resolve(q, i) ==
    /\ handler = None
    /\ record[q].status = "NONE"
    /\ i \in items
    /\ session.version < MaxVersion /\ draft.current < MaxRevision
    /\ record' = [record EXCEPT ![q] = [status |-> "BEGUN", item |-> i,
                                        base |-> session.revision,
                                        version |-> session.version]]
    /\ GoOn(q, "applying")
    /\ UNCHANGED <<draft, items, session, leased, advanced, audits, process>>

\* Whether the session still is where the request brought it.
StillThere(q) == q \in advanced /\ session.revision = record[q].base + 1

\* Mutant: the audit row is taken for written.
RetryUnaudited(q) ==
    /\ handler = None
    /\ record[q].status = "BEGUN"
    /\ \/ StillThere(q) /\ GoOn(q, "finishing")
       \/ /\ ~StillThere(q)
          /\ session.version = record[q].version /\ record[q].item \in items
          /\ GoOn(q, "applying")
    /\ UNCHANGED <<draft, items, session, leased, record, advanced, audits, process>>

\* The same request again: it goes on with the audit, or checks its item again.
Retry(q) ==
    /\ handler = None
    /\ record[q].status = "BEGUN"
    /\ \/ StillThere(q) /\ GoOn(q, "auditing")
       \/ /\ ~StillThere(q)
          /\ session.version = record[q].version /\ record[q].item \in items
          /\ GoOn(q, "applying")
    /\ UNCHANGED <<draft, items, session, leased, record, advanced, audits, process>>

\* claim_next; a command that was seen before has no revision to go on with.
Apply(q) ==
    /\ At(q, "applying")
    /\ LET d == Recovered(draft, process) IN
       \/ /\ ~leased /\ Claimable(d, q, record[q].base)
          /\ draft' = Claimed(d, q, process)
          /\ GoOn(q, "patching")
       \/ /\ leased \/ ~Claimable(d, q, record[q].base)
          /\ Stop
          /\ UNCHANGED draft
    /\ UNCHANGED <<items, session, leased, record, advanced, audits, process>>

\* The relaxation settles its item and perhaps others, or the patched draft is
\* refused, or the database fails and the claim stays.
Patch(q) ==
    /\ At(q, "patching")
    /\ \/ /\ Completable(draft, q)
          /\ draft' = Completed(draft, q, [CurrentContent(draft) EXCEPT
                                             !.shared = draft.command[q].target])
          /\ items' \in SUBSET (items \ {record[q].item})
          /\ GoOn(q, "advancing")
       \/ /\ draft' \in {Released(draft, q), draft}
          /\ Stop
          /\ UNCHANGED items
    /\ UNCHANGED <<session, leased, record, advanced, audits, process>>

Advance(q) ==
    /\ At(q, "advancing")
    /\ ~leased
    /\ session = [revision |-> record[q].base, version |-> record[q].version]
    /\ session' = [revision |-> draft.command[q].target, version |-> session.version + 1]
    /\ advanced' = advanced \cup {q}
    /\ GoOn(q, "auditing")
    /\ UNCHANGED <<draft, items, leased, record, audits, process>>

\* record_resolution_audit, refused under a lease.
Audit(q) ==
    /\ At(q, "auditing")
    /\ \/ /\ ~leased
          /\ audits' = [audits EXCEPT ![q] = Append(@, [before |-> record[q].base,
                                                        after |-> session.revision])]
          /\ GoOn(q, "finishing")
       \/ /\ leased
          /\ Stop
          /\ UNCHANGED audits
    /\ UNCHANGED <<draft, items, session, leased, record, advanced, process>>

Finish(q) ==
    /\ At(q, "finishing")
    /\ record' = [record EXCEPT ![q].status = "DONE"]
    /\ Stop
    /\ UNCHANGED <<draft, items, session, leased, advanced, audits, process>>

-----------------------------------------------------------------------------
(* What else happens to the draft and the session.                         *)

\* A member sends an answer; the handler awaits the model.
Send(k) ==
    /\ handler = None /\ ~leased
    /\ session.version < MaxVersion /\ draft.current < MaxRevision
    /\ LET d == Recovered(draft, process)
       IN  /\ Claimable(d, k, session.revision)
           /\ draft' = Claimed(d, k, process)
    /\ UNCHANGED <<items, session, leased, record, advanced, audits, handler, process>>

\* It was understood, and may have settled or raised any item, or it was not.
Understood(k) ==
    /\ handler = None
    /\ draft.command[k].owner = process
    /\ \/ /\ Completable(draft, k)
          /\ draft' = Completed(draft, k, CurrentContent(draft))
          /\ items' \in SUBSET Items
       \/ /\ Status(draft, k) = "CLAIMED"
          /\ draft' = Released(draft, k)
          /\ UNCHANGED items
    /\ UNCHANGED <<session, leased, record, advanced, audits, handler, process>>

\* The session follows an answer, at once or when it is sent again.
Publish(k) ==
    /\ handler = None /\ ~leased
    /\ Replays(draft, k, session.revision)
    /\ session.version < MaxVersion
    /\ session' = [revision |-> draft.command[k].target, version |-> session.version + 1]
    /\ UNCHANGED <<draft, items, leased, record, advanced, audits, handler, process>>

\* Any other mutation of the session, such as a confirmation.
Confirm ==
    /\ handler = None /\ ~leased
    /\ session.version < MaxVersion
    /\ session' = [session EXCEPT !.version = @ + 1]
    /\ UNCHANGED <<draft, items, leased, record, advanced, audits, handler, process>>

\* A planning operation, which needs a draft without items, and its end.
Plan ==
    /\ handler = None
    /\ leased \/ (items = {} /\ session.revision = draft.current)
    /\ leased' = ~leased
    /\ UNCHANGED <<draft, items, session, record, advanced, audits, handler, process>>

\* The process dies and another one starts.
Crash ==
    /\ process + 1 \in Owners     \* bound: as many starts as process ids
    /\ process' = process + 1
    /\ draft' = Recovered(draft, process')
    /\ Stop
    /\ UNCHANGED <<items, session, leased, record, advanced, audits>>

Next ==
    \/ \E q \in Approvals :
          \/ \E i \in Items : Resolve(q, i)
          \/ Retry(q) \/ Apply(q) \/ Patch(q) \/ Advance(q) \/ Audit(q) \/ Finish(q)
    \/ \E k \in Answers : Send(k) \/ Understood(k) \/ Publish(k)
    \/ Confirm \/ Plan \/ Crash

Spec == Init /\ [][Next]_vars

-----------------------------------------------------------------------------

(***************************************************************************)
(* However often the handler was cut off and tried again: a request that   *)
(* counts as done has written the revision after its base, published and   *)
(* audited it; and an audit row tells of a revision that its request wrote *)
(* and published.                                                          *)
(***************************************************************************)
ResolvedIsAudited ==
    \A q \in Approvals :
        LET base == record[q].base
            published == /\ q \in advanced
                         /\ Status(draft, q) = "COMPLETED"
                         /\ draft.command[q].target = base + 1
                         /\ session.revision > base
        IN  /\ record[q].status = "DONE" => published /\ audits[q] # <<>>
            /\ \A i \in DOMAIN audits[q] :
                  published /\ audits[q][i] = [before |-> base, after |-> base + 1]
=============================================================================
