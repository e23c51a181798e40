--------------------------- MODULE DraftRevisions ---------------------------
(***************************************************************************)
(* The revision store of one trip draft (trip_draft_revision_store.py).    *)
(* A draft is a head row with the current and the pending revision, the    *)
(* immutable revision rows, and one row per command: a command is claimed, *)
(* the language model is called outside any transaction, and the command   *)
(* is then completed with a new revision or failed.                        *)
(*                                                                         *)
(* The operators are the transactions of the repository, as functions of   *)
(* the rows they read; the handlers that call them are in Collaboration.   *)
(***************************************************************************)
EXTENDS Naturals

CONSTANTS
    Participants,   \* the members of the trip, the organizer among them
    Answers,        \* identities (actor, key) of members' answers
    Approvals,      \* identities of approved change proposals (relaxations)
    Author,         \* the member who sends each answer
    Owners,         \* process ids: one per start of the server
    NoOwner         \* no process

Commands == Answers \cup Approvals

(* Two commands of different operations never share an identity, every     *)
(* answer has an author, and a process id is never the NULL of owner_id.   *)
ASSUME CommandsAreNamed ==
    /\ Answers \cap Approvals = {}
    /\ Author \in [Answers -> Participants]
    /\ NoOwner \notin Owners

NoRevision == 0     \* pending_revision IS NULL

-----------------------------------------------------------------------------

CommandStatus == {"NEW", "CLAIMED", "COMPLETED", "FAILED"}

CommandRow == [status : CommandStatus, base : Nat, target : Nat,
               owner : Owners \cup {NoOwner}]

(* What a revision says: of the whole trip, and of each member. A part is  *)
(* named by the revision that wrote it, so equal names are equal digests.  *)
Content == [shared : Nat, member : [Participants -> Nat]]

NewCommand == [status |-> "NEW", base |-> 0, target |-> 0, owner |-> NoOwner]

FirstContent == [shared |-> 1, member |-> [m \in Participants |-> 1]]

(* The draft after the organizer's first conversation was understood.      *)
FirstDraft ==
    [current |-> 1, pending |-> NoRevision,
     rev     |-> [r \in {1} |-> FirstContent],
     command |-> [k \in Commands |-> NewCommand]]

Status(d, k) == d.command[k].status

CurrentContent(d) == d.rev[d.current]

(* The reservation of command k is the one the head row holds.             *)
HeadHolds(d, k) ==
    /\ d.current = d.command[k].base
    /\ d.pending = d.command[k].target

-----------------------------------------------------------------------------

(* Claims of processes other than p, found still reserved, are failed.     *)
Orphans(d, p) ==
    {k \in Commands : /\ Status(d, k) = "CLAIMED"
                      /\ d.command[k].owner # p
                      /\ HeadHolds(d, k)}

\* Mutant: claims of dead processes are never recovered.
NotRecovered(d, p) == d

Recovered(d, p) ==
    [d EXCEPT
        !.pending = IF Orphans(d, p) = {} THEN @ ELSE NoRevision,
        !.command = [k \in Commands |->
                        IF k \in Orphans(d, p)
                        THEN [d.command[k] EXCEPT !.status = "FAILED"]
                        ELSE d.command[k]]]

\* Mutants: an identity seen before is claimed again; the base is not compared.
ClaimableAgain(d, k, base) ==
    d.pending = NoRevision /\ d.current = base

ClaimableOnAny(d, k, base) ==
    Status(d, k) = "NEW" /\ d.pending = NoRevision

(* claim_next: a new identity, an idle head, and the revision the client   *)
(* answered is the current one.                                            *)
Claimable(d, k, base) ==
    /\ Status(d, k) = "NEW"
    /\ d.pending = NoRevision
    /\ d.current = base

Claimed(d, k, p) ==
    [d EXCEPT
        !.pending = d.current + 1,
        !.command[k] = [status |-> "CLAIMED", base |-> d.current,
                        target |-> d.current + 1, owner |-> p]]

(* An identity seen before, with the same request: its revision is         *)
(* returned, and nothing is written.                                       *)
Replays(d, k, base) ==
    /\ Status(d, k) = "COMPLETED"
    /\ d.command[k].base = base

Completable(d, k) ==
    /\ Status(d, k) = "CLAIMED"
    /\ HeadHolds(d, k)
    /\ d.command[k].target \notin DOMAIN d.rev

\* Mutant: the head is moved before its row is there.
CompletedWithoutRow(d, k, content) ==
    [d EXCEPT !.current = d.command[k].target, !.pending = NoRevision,
              !.command[k].status = "COMPLETED"]

(* complete: the revision row, the head and the command in one transaction. *)
Completed(d, k, content) ==
    LET target == d.command[k].target IN
    [d EXCEPT
        !.rev     = [r \in DOMAIN d.rev \cup {target} |->
                        IF r = target THEN content ELSE d.rev[r]],
        !.current = target,
        !.pending = NoRevision,
        !.command[k].status = "COMPLETED"]

\* Mutant: the head is released but the command stays claimed.
ReleasedHead(d, k) ==
    IF Status(d, k) = "CLAIMED" /\ HeadHolds(d, k)
    THEN [d EXCEPT !.pending = NoRevision]
    ELSE d

(* fail: the reservation is given up; anything but a claim is left alone.  *)
Released(d, k) ==
    IF Status(d, k) = "CLAIMED" /\ HeadHolds(d, k)
    THEN [d EXCEPT !.pending = NoRevision, !.command[k].status = "FAILED"]
    ELSE d

(* unresolved_failed_answer_attempts: member m has a failed answer that no *)
(* later completed answer of m makes up for.                               *)
Unresolved(d, m) ==
    \E k \in Answers :
        /\ Author[k] = m
        /\ Status(d, k) = "FAILED"
        /\ \/ d.command[k].target > d.current
           \/ ~ \E s \in Answers :
                  /\ Author[s] = m
                  /\ Status(d, s) = "COMPLETED"
                  /\ d.command[s].target >= d.command[k].target

=============================================================================
