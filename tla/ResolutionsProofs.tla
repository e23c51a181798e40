-------------------------- MODULE ResolutionsProofs -------------------------
(***************************************************************************)
(* The settling of open items, for any number of items, members, requests  *)
(* and starts of the server.                                               *)
(***************************************************************************)
EXTENDS Resolutions, DraftRevisionsProofs, SequenceTheorems

-----------------------------------------------------------------------------
(* The settling of open items.  A request that was published stays so: its *)
(* command is completed for good, and the session only moves forward.      *)

Steps == {"applying", "patching", "advancing", "auditing", "finishing"}

Rows ==
    /\ DraftOK(draft)
    /\ process \in Owners
    /\ session \in [revision : Nat, version : Nat]
    /\ record \in [Approvals -> [status : {"NONE", "BEGUN", "DONE"}, item : Items \cup {None},
                                 base : Nat, version : Nat]]
    /\ audits \in [Approvals -> Seq([before : Nat, after : Nat])]

Patched(q) ==
    /\ Status(draft, q) = "COMPLETED"
    /\ draft.command[q].target = record[q].base + 1

Published(q) == Patched(q) /\ session.revision > record[q].base

\* What the rows say of a request, and what its handler relies on.
Told(q) ==
    /\ record[q].status = "NONE" => q \notin advanced
    /\ q \in advanced => Published(q)
    /\ record[q].status = "DONE" => q \in advanced /\ audits[q] # <<>>
    /\ \A i \in DOMAIN audits[q] :
          /\ q \in advanced
          /\ audits[q][i] = [before |-> record[q].base, after |-> record[q].base + 1]

Handling(q) ==
    /\ \A s \in Steps : At(q, s) => record[q].status # "NONE"
    /\ At(q, "patching") => /\ Status(draft, q) # "NEW"
                            /\ draft.command[q].base = record[q].base
    /\ At(q, "advancing") => Patched(q)
    /\ At(q, "auditing") => q \in advanced /\ session.revision = record[q].base + 1
    /\ At(q, "finishing") => q \in advanced /\ audits[q] # <<>>

RInv == Rows /\ \A q \in Approvals : Told(q) /\ Handling(q)

\* A step that writes nothing of a request keeps what is told of it.
LEMMA StillTold ==
    ASSUME Rows, NEW q \in Approvals, Told(q), Extends(draft', draft),
           session'.revision \in Nat, session'.revision >= session.revision,
           record'[q] = record[q], audits'[q] = audits[q], q \in advanced' <=> q \in advanced
    PROVE  Told(q)'
<1>1. q \in Commands /\ record[q].base \in Nat /\ session.revision \in Nat
  BY DEF Rows, Commands
<1>2. Patched(q) => Patched(q)'
  BY <1>1 DEF Patched, Extends, Status
<1> QED  BY <1>1, <1>2 DEF Told, Published

\* No handler runs after it.
LEMMA NoneHandling ==
    ASSUME None \notin [of : Approvals, step : Steps], handler' = None, NEW q \in Approvals
    PROVE  Handling(q)'
<1>1. \A s \in Steps : ~At(q, s)'
  BY DEF At
<1> QED  BY <1>1 DEF Handling, Steps

\* Only the one that runs after it.
LEMMA OneHandling ==
    ASSUME NEW q \in Approvals, NEW s \in Steps, GoOn(q, s), NEW o \in Approvals, o # q
    PROVE  Handling(o)'
<1>1. \A x \in Steps : ~At(o, x)'
  BY DEF At, GoOn
<1> QED  BY <1>1 DEF Handling, Steps

\* A step that runs no handler and writes no request, the store aside.
LEMMA EnvironmentStep ==
    ASSUME None \notin [of : Approvals, step : Steps], RInv, handler' = None,
           UNCHANGED <<record, advanced, audits>>,
           DraftOK(draft'), Extends(draft', draft), process' \in Owners,
           session' \in [revision : Nat, version : Nat], session'.revision >= session.revision
    PROVE  RInv'
<1>1. Rows'
  BY DEF RInv, Rows
<1>2. session'.revision \in Nat
  OBVIOUS
<1>3. \A q \in Approvals : Told(q)'
  BY <1>2, StillTold DEF RInv
<1> QED  BY <1>1, <1>3, NoneHandling DEF RInv

\* A step of the handler of q that writes nothing of another request.
LEMMA HandlerStep ==
    ASSUME RInv, Rows', NEW q \in Approvals, NEW s \in Steps, GoOn(q, s),
           Extends(draft', draft), session'.revision >= session.revision,
           \A o \in Approvals \ {q} : /\ record'[o] = record[o] /\ audits'[o] = audits[o]
                                      /\ o \in advanced' <=> o \in advanced,
           Told(q)', Handling(q)'
    PROVE  RInv'
<1>1. session'.revision \in Nat
  BY DEF Rows
<1>2. \A o \in Approvals \ {q} : Told(o)'
  BY <1>1, StillTold DEF RInv
<1>3. \A o \in Approvals \ {q} : Handling(o)'
  BY OneHandling
<1> QED  BY <1>2, <1>3 DEF RInv

\* A step may leave the draft and the session as they are.
LEMMA Unmoved == RInv => /\ Extends(draft, draft) /\ session.revision \in Nat
                         /\ session.revision >= session.revision
  BY DEF RInv, Rows, DraftOK, DraftRow, Extends

\* A handler is at one step.
LEMMA OnlyAt ==
    ASSUME NEW q \in Approvals, NEW s \in Steps, GoOn(q, s), NEW x \in Steps, x # s
    PROVE  ~At(q, x)'
  BY DEF GoOn, At

\* Two transactions take back no more than one.
LEMMA OneAfterAnother ==
    ASSUME NEW d, NEW e, NEW f, DraftOK(d), DraftOK(e), DraftOK(f),
           Extends(e, d), Extends(f, e)
    PROVE  Extends(f, d)
<1>1. d.current \in Nat /\ e.current \in Nat /\ f.current \in Nat
  BY DEF DraftOK, DraftRow
<1> QED  BY <1>1 DEF Extends

LEMMA ResolveStep ==
    ASSUME RInv, NEW q \in Approvals, NEW i \in Items, Resolve(q, i)
    PROVE  RInv'
<1>1. /\ record' = [record EXCEPT ![q] = [status |-> "BEGUN", item |-> i,
                                          base |-> session.revision,
                                          version |-> session.version]]
      /\ GoOn(q, "applying") /\ record[q].status = "NONE"
      /\ UNCHANGED <<draft, session, advanced, audits, process>>
  BY DEF Resolve
<1>2. Rows'
  BY <1>1 DEF RInv, Rows
<1>3. q \notin advanced /\ DOMAIN audits[q] = {}
  BY <1>1 DEF RInv, Told
<1>4. record'[q].status = "BEGUN" /\ \A o \in Approvals \ {q} : record'[o] = record[o]
  BY <1>1 DEF RInv, Rows
<1>5. Told(q)'
  BY <1>1, <1>3, <1>4 DEF Told
<1>6. Handling(q)'
  BY <1>1, <1>4, OnlyAt DEF Handling, Steps
<1> QED  BY <1>1, <1>2, <1>4, <1>5, <1>6, HandlerStep, Unmoved DEF Steps

LEMMA RetryStep == ASSUME RInv, NEW q \in Approvals, Retry(q) PROVE RInv'
<1>1. /\ record[q].status = "BEGUN"
      /\ UNCHANGED <<draft, session, record, advanced, audits, process>>
  BY DEF Retry
<1>2. Rows' /\ Told(q)'
  <2>1. Rows' /\ Told(q)
    BY <1>1 DEF RInv, Rows
  <2> QED  BY <1>1, <2>1, Unmoved, StillTold DEF RInv
<1>3. CASE GoOn(q, "applying")
  <2>1. Handling(q)'
    BY <1>1, <1>3, OnlyAt DEF Handling, Steps
  <2> QED  BY <1>1, <1>2, <1>3, <2>1, HandlerStep, Unmoved DEF Steps
<1>4. CASE StillThere(q) /\ GoOn(q, "auditing")
  <2>1. Handling(q)'
    BY <1>1, <1>4, OnlyAt DEF Handling, Steps, StillThere
  <2> QED  BY <1>1, <1>2, <1>4, <2>1, HandlerStep, Unmoved DEF Steps
<1> QED  BY <1>3, <1>4 DEF Retry

LEMMA ApplyStep ==
    ASSUME None \notin [of : Approvals, step : Steps], RInv, NEW q \in Approvals, Apply(q)
    PROVE  RInv'
<1> DEFINE d == Recovered(draft, process)
<1>1. /\ q \in Commands /\ DraftOK(d) /\ Extends(d, draft) /\ process \in Owners
  BY RecoveredOK DEF RInv, Rows, Commands
<1>2. UNCHANGED <<session, record, advanced, audits, process>> /\ record[q].status # "NONE"
  BY DEF Apply, RInv, Handling, Steps
<1>3. CASE Claimable(d, q, record[q].base) /\ draft' = Claimed(d, q, process) /\ GoOn(q, "patching")
  <2>1. /\ DraftOK(draft') /\ Extends(draft', d) /\ d.current = record[q].base
        /\ draft'.command[q] = [status |-> "CLAIMED", base |-> d.current,
                                target |-> d.current + 1, owner |-> process]
    BY <1>1, <1>3, ClaimedOK DEF Claimable
  <2>2. Extends(draft', draft)
    BY <1>1, <2>1, OneAfterAnother DEF RInv, Rows
  <2>3. Rows' /\ Told(q)'
    BY <1>2, <2>1, <2>2, StillTold, Unmoved DEF RInv, Rows
  <2>4. Handling(q)'
    BY <1>2, <1>3, <2>1, OnlyAt DEF Handling, Steps, Status
  <2> QED  BY <1>2, <1>3, <2>2, <2>3, <2>4, HandlerStep, Unmoved DEF Steps
<1>4. CASE Stop /\ UNCHANGED draft
  BY <1>1, <1>2, <1>4, EnvironmentStep, Unmoved DEF Stop, RInv, Rows
<1> QED  BY <1>3, <1>4 DEF Apply

LEMMA PatchStep ==
    ASSUME None \notin [of : Approvals, step : Steps], RInv, NEW q \in Approvals, Patch(q)
    PROVE  RInv'
<1>1. /\ q \in Commands /\ DraftOK(draft) /\ draft.command[q].base = record[q].base
      /\ Status(draft, q) # "NEW" /\ record[q].status # "NONE"
      /\ UNCHANGED <<session, record, advanced, audits, process>>
  BY DEF Patch, RInv, Rows, Handling, Steps, Commands
<1>2. ASSUME Completable(draft, q), GoOn(q, "advancing"),
             draft' = Completed(draft, q, [CurrentContent(draft) EXCEPT
                                             !.shared = draft.command[q].target])
      PROVE  RInv'
  <2>1. [CurrentContent(draft) EXCEPT !.shared = draft.command[q].target] \in Content
    <3>1. CurrentContent(draft) \in Content /\ draft.command[q].target \in Nat
      BY <1>1 DEF DraftOK, DraftRow, Numbered, CurrentContent, CommandRow
    <3> QED  BY <3>1 DEF Content
  <2>2. DraftOK(draft') /\ Extends(draft', draft) /\ Status(draft', q) = "COMPLETED"
    BY <1>1, <1>2, <2>1, CompletedOK
  <2>3. draft.current = record[q].base
    BY <1>1, <1>2 DEF Completable, HeadHolds
  <2>4. draft'.command[q].target = record[q].base + 1
    BY <1>1, <1>2, <2>1, <2>3, CompletedOK
  <2>5. Rows' /\ Told(q)'
    BY <1>1, <2>2, StillTold, Unmoved DEF RInv, Rows
  <2>6. Handling(q)'
    BY <1>1, <1>2, <2>2, <2>4, OnlyAt DEF Handling, Steps, Patched
  <2> QED  BY <1>1, <1>2, <2>2, <2>5, <2>6, HandlerStep, Unmoved DEF Steps
<1>3. CASE draft' \in {Released(draft, q), draft} /\ Stop
  <2>1. DraftOK(draft') /\ Extends(draft', draft)
    BY <1>1, <1>3, ReleasedOK, Unmoved
  <2> QED  BY <1>1, <1>3, <2>1, EnvironmentStep, Unmoved DEF Stop, RInv, Rows
<1> QED  BY <1>2, <1>3 DEF Patch

LEMMA AdvanceStep == ASSUME RInv, NEW q \in Approvals, Advance(q) PROVE RInv'
<1>1. /\ Patched(q) /\ record[q].status # "NONE"
      /\ session = [revision |-> record[q].base, version |-> record[q].version]
      /\ session' = [revision |-> draft.command[q].target, version |-> session.version + 1]
      /\ advanced' = advanced \cup {q} /\ GoOn(q, "auditing")
      /\ UNCHANGED <<draft, record, audits, process>>
  BY DEF Advance, RInv, Handling, Steps
<1>2. record[q].base \in Nat /\ session.version \in Nat
  BY DEF RInv, Rows
<1>3. session'.revision = record[q].base + 1 /\ session'.revision >= session.revision
  BY <1>1, <1>2 DEF Patched
<1>4. session' \in [revision : Nat, version : Nat]
  BY <1>1, <1>2 DEF Patched
<1>5. Rows'
  BY <1>1, <1>4 DEF RInv, Rows
<1>6. Published(q)'
  BY <1>1, <1>2, <1>3 DEF Patched, Published
<1>7. Told(q) /\ q \in advanced'
  BY <1>1 DEF RInv
<1>8. Told(q)'
  BY <1>1, <1>6, <1>7 DEF Told
<1>9. Handling(q)'
  BY <1>1, <1>3, <1>7, OnlyAt DEF Handling, Steps
<1> QED  BY <1>1, <1>3, <1>5, <1>8, <1>9, HandlerStep, Unmoved DEF Steps

LEMMA AuditStep ==
    ASSUME None \notin [of : Approvals, step : Steps], RInv, NEW q \in Approvals, Audit(q)
    PROVE  RInv'
<1>1. /\ q \in advanced /\ session.revision = record[q].base + 1
      /\ UNCHANGED <<draft, session, record, advanced, process>>
      /\ Told(q) /\ record[q].status # "NONE"
  BY DEF Audit, RInv, Handling, Steps
<1>2. CASE Stop /\ UNCHANGED audits
  BY <1>1, <1>2, EnvironmentStep, Unmoved DEF Stop, RInv, Rows
<1>3. ASSUME GoOn(q, "finishing"),
             audits' = [audits EXCEPT ![q] = Append(@, [before |-> record[q].base,
                                                        after |-> session.revision])]
      PROVE  RInv'
  <2> DEFINE row == [before |-> record[q].base, after |-> record[q].base + 1]
  <2>1. /\ audits[q] \in Seq([before : Nat, after : Nat]) /\ row \in [before : Nat, after : Nat]
        /\ audits \in [Approvals -> Seq([before : Nat, after : Nat])]
    BY DEF RInv, Rows
  <2>2. audits' = [audits EXCEPT ![q] = Append(audits[q], row)]
    BY <1>1, <1>3
  <2> HIDE DEF row
  <2>3. /\ Append(audits[q], row) \in Seq([before : Nat, after : Nat])
        /\ Append(audits[q], row) # <<>>
        /\ \A i \in DOMAIN Append(audits[q], row) :
              \/ i \in DOMAIN audits[q] /\ Append(audits[q], row)[i] = audits[q][i]
              \/ Append(audits[q], row)[i] = row
    <3>1. /\ Append(audits[q], row) \in Seq([before : Nat, after : Nat])
          /\ Append(audits[q], row) # <<>>
          /\ Len(Append(audits[q], row)) = Len(audits[q]) + 1
          /\ \A i \in 1 .. Len(audits[q]) : Append(audits[q], row)[i] = audits[q][i]
          /\ Append(audits[q], row)[Len(audits[q]) + 1] = row
      <4> DEFINE R == [before : Nat, after : Nat]
      <4>1. audits[q] \in Seq(R) /\ row \in R
        BY <2>1
      <4> HIDE DEF R
      <4>2. /\ Append(audits[q], row) \in Seq(R)
            /\ Append(audits[q], row) # <<>>
            /\ Len(Append(audits[q], row)) = Len(audits[q]) + 1
            /\ \A i \in 1 .. Len(audits[q]) : Append(audits[q], row)[i] = audits[q][i]
            /\ Append(audits[q], row)[Len(audits[q]) + 1] = row
        BY <4>1, AppendProperties
      <4> QED  BY <4>2 DEF R
    <3>2. /\ DOMAIN Append(audits[q], row) = 1 .. Len(audits[q]) + 1
          /\ DOMAIN audits[q] = 1 .. Len(audits[q]) /\ Len(audits[q]) \in Nat
      BY <2>1, <3>1, LenProperties
    <3> QED  BY <3>1, <3>2
  <2>4. /\ audits' \in [Approvals -> Seq([before : Nat, after : Nat])]
        /\ audits'[q] = Append(audits[q], row)
        /\ \A o \in Approvals \ {q} : audits'[o] = audits[o]
    BY <2>1, <2>2, <2>3
  <2>5. Rows'
    BY <1>1, <2>4 DEF RInv, Rows
  <2>6. Told(q)'
    <3>1. Published(q)'
      BY <1>1 DEF Told, Published, Patched
    <3>2. \A i \in DOMAIN audits'[q] : audits'[q][i] = row
      BY <1>1, <2>3, <2>4 DEF Told, row
    <3>3. audits'[q] # <<>> /\ q \in advanced' /\ record'[q] = record[q]
      BY <1>1, <2>3, <2>4
    <3> QED  BY <1>1, <3>1, <3>2, <3>3 DEF Told, row
  <2>7. Handling(q)'
    BY <1>1, <1>3, <2>3, <2>4, OnlyAt DEF Handling, Steps
  <2> QED  BY <1>1, <1>3, <2>4, <2>5, <2>6, <2>7, HandlerStep, Unmoved DEF Steps
<1> QED  BY <1>2, <1>3 DEF Audit

LEMMA FinishStep ==
    ASSUME None \notin [of : Approvals, step : Steps], RInv, NEW q \in Approvals, Finish(q)
    PROVE  RInv'
<1>1. /\ q \in advanced /\ audits[q] # <<>> /\ Told(q) /\ handler' = None
      /\ record' = [record EXCEPT ![q].status = "DONE"]
      /\ UNCHANGED <<draft, session, advanced, audits, process>>
  BY DEF Finish, Stop, RInv, Handling, Steps
<1>2. /\ record' \in [Approvals -> [status : {"NONE", "BEGUN", "DONE"}, item : Items \cup {None},
                                    base : Nat, version : Nat]]
      /\ record'[q].status = "DONE" /\ record'[q].base = record[q].base
      /\ \A o \in Approvals \ {q} : record'[o] = record[o]
  BY <1>1 DEF RInv, Rows
<1>3. Rows'
  BY <1>1, <1>2 DEF RInv, Rows
<1>4. Told(q)'
  BY <1>1, <1>2 DEF Told, Published, Patched
<1>5. \A o \in Approvals \ {q} : Told(o)'
  BY <1>1, <1>2, StillTold, Unmoved DEF RInv
<1> QED  BY <1>1, <1>3, <1>4, <1>5, NoneHandling DEF RInv

LEMMA AnswerStep ==
    ASSUME None \notin [of : Approvals, step : Steps], RInv, NEW k \in Answers,
           Send(k) \/ Understood(k) \/ Publish(k)
    PROVE  RInv'
<1>1. /\ k \in Commands /\ DraftOK(draft) /\ process \in Owners
      /\ session \in [revision : Nat, version : Nat]
  BY DEF RInv, Rows, Commands
<1>2. CASE Send(k)
  <2> DEFINE d == Recovered(draft, process)
  <2>1. DraftOK(d) /\ Extends(d, draft)
    BY <1>1, RecoveredOK
  <2>2. Claimable(d, k, session.revision) /\ draft' = Claimed(d, k, process)
    BY <1>2 DEF Send
  <2>3. DraftOK(draft') /\ Extends(draft', d)
    BY <1>1, <2>1, <2>2, ClaimedOK
  <2>4. Extends(draft', draft)
    BY <1>1, <2>1, <2>3, OneAfterAnother
  <2> QED  BY <1>1, <1>2, <2>3, <2>4, EnvironmentStep, Unmoved DEF Send
<1>3. CASE Understood(k)
  <2>1. DraftOK(draft') /\ Extends(draft', draft)
    <3>1. CurrentContent(draft) \in Content
      BY <1>1 DEF DraftOK, DraftRow, Numbered, CurrentContent
    <3> QED  BY <1>1, <1>3, <3>1, CompletedOK, ReleasedOK DEF Understood
  <2> QED  BY <1>1, <1>3, <2>1, EnvironmentStep, Unmoved DEF Understood
<1>4. CASE Publish(k)
  <2>1. draft.command[k].target = session.revision + 1
    BY <1>1, <1>4 DEF Publish, Replays, DraftOK, Numbered, Status
  <2>2. session' = [revision |-> session.revision + 1, version |-> session.version + 1]
    BY <1>4, <2>1 DEF Publish
  <2>3. session' \in [revision : Nat, version : Nat] /\ session'.revision >= session.revision
    BY <1>1, <2>2
  <2> QED  BY <1>1, <1>4, <2>3, EnvironmentStep, Unmoved DEF Publish
<1> QED  BY <1>2, <1>3, <1>4

LEMMA OtherStep ==
    ASSUME None \notin [of : Approvals, step : Steps], RInv, Confirm \/ Plan \/ Crash
    PROVE  RInv'
<1>1. /\ DraftOK(draft) /\ process \in Owners /\ session \in [revision : Nat, version : Nat]
  BY DEF RInv, Rows
<1>2. CASE Confirm
  <2>1. session' \in [revision : Nat, version : Nat] /\ session'.revision = session.revision
    BY <1>1, <1>2 DEF Confirm
  <2> QED  BY <1>1, <1>2, <2>1, EnvironmentStep, Unmoved DEF Confirm
<1>3. CASE Plan
  BY <1>1, <1>3, EnvironmentStep, Unmoved DEF Plan
<1>4. CASE Crash
  <2>1. DraftOK(draft') /\ Extends(draft', draft)
    BY <1>1, <1>4, RecoveredOK DEF Crash
  <2> QED  BY <1>1, <1>4, <2>1, EnvironmentStep, Unmoved DEF Crash, Stop
<1> QED  BY <1>2, <1>3, <1>4

LEMMA ResolutionStep ==
    ASSUME None \notin [of : Approvals, step : Steps], RInv, [Next]_vars
    PROVE  RInv'
<1>1. ASSUME NEW q \in Approvals,
             \/ \E i \in Items : Resolve(q, i)
             \/ Retry(q) \/ Apply(q) \/ Patch(q) \/ Advance(q) \/ Audit(q) \/ Finish(q)
      PROVE  RInv'
  BY <1>1, ResolveStep, RetryStep, ApplyStep, PatchStep, AdvanceStep, AuditStep, FinishStep
<1>2. CASE UNCHANGED vars
  <2>1. Rows'
    BY <1>2 DEF RInv, Rows, vars
  <2>2. \A q \in Approvals : Told(q)' /\ Handling(q)'
    BY <1>2 DEF RInv, Told, Handling, Published, Patched, At, vars
  <2> QED  BY <2>1, <2>2 DEF RInv
<1> QED  BY <1>1, <1>2, AnswerStep, OtherStep DEF Next

LEMMA ResolutionInit ==
    ASSUME None \notin [of : Approvals, step : Steps], 1 \in Owners, Init
    PROVE  RInv
<1>1. DraftOK(draft)
  BY FirstDraftOK DEF Init
<1>2. Rows
  BY <1>1 DEF Init, Rows, NoRecord
<1>3. \A q \in Approvals : Told(q)
  BY DEF Init, Told, NoRecord
<1>4. \A q \in Approvals : Handling(q)
  BY DEF Init, Handling, At, Steps
<1> QED  BY <1>2, <1>3, <1>4 DEF RInv

(***************************************************************************)
(* However the transactions of the handler are cut off and tried again     *)
(* (_resolve of collaboration_service.py): what counts as done is written, *)
(* published and audited, and an audit row tells what happened.  Assumed:  *)
(* the first start has a process id, and no handler is None.               *)
(***************************************************************************)
THEOREM SettledIsAudited ==
    ASSUME None \notin [of : Approvals, step : Steps], 1 \in Owners
    PROVE  Spec => []ResolvedIsAudited
<1>1. Init => RInv
  BY ResolutionInit
<1>2. RInv /\ [Next]_vars => RInv'
  BY ResolutionStep
<1>3. RInv => ResolvedIsAudited
  BY DEF RInv, Rows, Told, Published, Patched, ResolvedIsAudited
<1> QED  BY <1>1, <1>2, <1>3, PTL DEF Spec

=============================================================================
