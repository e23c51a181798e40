------------------------ MODULE DraftRevisionsProofs ------------------------
(***************************************************************************)
(* Facts about the transactions of the revision store, for the modules     *)
(* that compose them.  Each transaction is a function of the rows of one   *)
(* draft, and DraftOK is preserved by all of them.                         *)
(***************************************************************************)
EXTENDS DraftRevisions, TLAPS

(* The columns of the draft's rows; revisions are numbered without a gap.  *)
DraftRow(d) ==
    d \in [current : Nat, pending : Nat, rev : [1 .. d.current -> Content],
           command : [Commands -> CommandRow]]

(* A claim reserves the revision after the one it answers, and a completed *)
(* command's revision is there.                                            *)
Numbered(d) ==
    /\ d.current >= 1
    /\ \A k \in Commands : Status(d, k) # "NEW" =>
          /\ d.command[k].base >= 1
          /\ d.command[k].target = d.command[k].base + 1
          /\ Status(d, k) = "COMPLETED" => d.command[k].target <= d.current

(* One claim at most, which holds the head; one writer of every revision.  *)
Held(d) ==
    /\ d.pending # NoRevision => \E k \in Commands : Status(d, k) = "CLAIMED"
    /\ \A k \in Commands : Status(d, k) = "CLAIMED" =>
          /\ HeadHolds(d, k)
          /\ d.pending = d.current + 1
          /\ \A j \in Commands : Status(d, j) = "CLAIMED" => j = k

Written(d) ==
    /\ \A r \in 2 .. d.current : \E k \in Commands :
          Status(d, k) = "COMPLETED" /\ d.command[k].target = r
    /\ \A j, k \in Commands :
          /\ Status(d, j) = "COMPLETED"
          /\ Status(d, k) = "COMPLETED"
          /\ d.command[j].target = d.command[k].target
          => j = k

DraftOK(d) == DraftRow(d) /\ Numbered(d) /\ Held(d) /\ Written(d)

(* What no transaction takes back: the revisions that are there, and the   *)
(* completion of a command.                                                *)
Extends(e, d) ==
    /\ e.current >= d.current
    /\ \A r \in 1 .. d.current : e.rev[r] = d.rev[r]
    /\ \A k \in Commands : Status(d, k) = "COMPLETED" =>
          /\ Status(e, k) = "COMPLETED"
          /\ e.command[k].target = d.command[k].target

(* The draft begins with one revision and no command.                      *)
LEMMA FirstDraftOK == DraftOK(FirstDraft)
<1> DEFINE d == FirstDraft
<1>1. NewCommand \in CommandRow /\ FirstContent \in Content
  BY DEF NewCommand, CommandRow, CommandStatus, FirstContent, Content
<1>2. /\ d.current = 1 /\ d.pending = 0
      /\ d.rev = [r \in {1} |-> FirstContent]
      /\ d.command = [k \in Commands |-> NewCommand]
      /\ \A k \in Commands : Status(d, k) = "NEW"
  BY DEF FirstDraft, NoRevision, Status, NewCommand
<1>3. DraftRow(d)
  <2>1. 1 .. 1 = {1}
    OBVIOUS
  <2>2. d.rev \in [1 .. d.current -> Content]
    BY <1>1, <1>2, <2>1
  <2> QED  BY <1>1, <1>2, <2>2 DEF DraftRow, FirstDraft, NoRevision
<1> QED  BY <1>2, <1>3 DEF DraftOK, Numbered, Held, Written, NoRevision

-----------------------------------------------------------------------------
(* The transactions of the store.                                          *)

(* A claimed command is the only one, and holds the head. Claiming changes *)
(* one command row and the pending revision.                               *)
LEMMA ClaimedOK ==
    ASSUME NEW d, DraftOK(d), NEW k \in Commands, NEW b, Claimable(d, k, b),
           NEW p \in Owners
    PROVE  LET e == Claimed(d, k, p) IN
           /\ DraftOK(e)
           /\ Extends(e, d)
           /\ e.current = d.current
           /\ \A j \in Commands : j # k => e.command[j] = d.command[j]
           /\ \A j \in Commands : Status(d, j) # "CLAIMED"
           /\ e.command[k] = [status |-> "CLAIMED", base |-> d.current,
                              target |-> d.current + 1, owner |-> p]
<1> DEFINE e == Claimed(d, k, p)
<1> DEFINE row == [status |-> "CLAIMED", base |-> d.current,
                   target |-> d.current + 1, owner |-> p]
<1>1. DraftRow(d) /\ Numbered(d) /\ Held(d) /\ Written(d)
  BY DEF DraftOK
<1>2. /\ Status(d, k) = "NEW" /\ d.pending = 0
      /\ \A j \in Commands : Status(d, j) # "CLAIMED"
  BY <1>1 DEF Claimable, NoRevision, Held, Numbered, DraftRow
<1>3. /\ e.current = d.current /\ e.pending = d.current + 1 /\ e.rev = d.rev
      /\ e.command = [d.command EXCEPT ![k] = row]
      /\ DOMAIN e.command = Commands
      /\ e.command[k] = row
      /\ \A j \in Commands : j # k => e.command[j] = d.command[j]
  BY <1>1 DEF Claimed, DraftRow
<1>4. row \in CommandRow
  BY <1>1 DEF CommandRow, CommandStatus, DraftRow
<1>5. DraftRow(e)
  <2>1. e.command \in [Commands -> CommandRow]
    BY <1>1, <1>3, <1>4 DEF DraftRow
  <2>2. d.current + 1 \in Nat
    BY <1>1 DEF DraftRow
  <2>3. e \in [current : Nat, pending : Nat, rev : [1 .. d.current -> Content],
               command : [Commands -> CommandRow]]
    BY <1>1, <2>1, <2>2 DEF DraftRow, Claimed
  <2> QED  BY <1>3, <2>3 DEF DraftRow
<1>6. Numbered(e)
  BY <1>1, <1>3 DEF Numbered, Status, DraftRow
<1>7. Held(e)
  BY <1>1, <1>2, <1>3 DEF Held, HeadHolds, Status, NoRevision, DraftRow
<1>8. Written(e)
  BY <1>1, <1>2, <1>3 DEF Written, Status, DraftRow
<1>9. Extends(e, d)
  BY <1>1, <1>2, <1>3 DEF Extends, Status, DraftRow
<1> QED  BY <1>2, <1>3, <1>5, <1>6, <1>7, <1>8, <1>9 DEF DraftOK

(* Completing a claim writes the one missing revision on top of the        *)
(* current one.                                                            *)
LEMMA CompletedOK ==
    ASSUME NEW d, DraftOK(d), NEW k \in Commands, Completable(d, k),
           NEW c \in Content
    PROVE  LET e == Completed(d, k, c) IN
           /\ DraftOK(e)
           /\ Extends(e, d)
           /\ e.current = d.current + 1
           /\ e.rev[e.current] = c
           /\ e.command[k].target = e.current
           /\ e.command[k].base = d.current
           /\ Status(e, k) = "COMPLETED"
           /\ \A j \in Commands : j # k => e.command[j] = d.command[j]
           /\ \A j \in Commands : Status(e, j) # "CLAIMED"
<1> DEFINE e == Completed(d, k, c)
<1> DEFINE target == d.command[k].target
<1> DEFINE row == [d.command[k] EXCEPT !.status = "COMPLETED"]
<1>1. DraftRow(d) /\ Numbered(d) /\ Held(d) /\ Written(d)
  BY DEF DraftOK
<1>2. /\ Status(d, k) = "CLAIMED" /\ d.current \in Nat
      /\ d.command[k] \in CommandRow
      /\ d.current = d.command[k].base /\ target = d.current + 1
      /\ \A j \in Commands : Status(d, j) = "CLAIMED" => j = k
  BY <1>1 DEF Completable, Held, HeadHolds, Numbered, DraftRow
<1>3. /\ row \in CommandRow /\ row.status = "COMPLETED"
      /\ row.base = d.current /\ row.target = d.current + 1
  BY <1>2 DEF CommandRow, CommandStatus
<1>4. /\ e.current = d.current + 1 /\ e.pending = 0
      /\ e.rev = [r \in DOMAIN d.rev \cup {target} |->
                     IF r = target THEN c ELSE d.rev[r]]
      /\ e.command = [d.command EXCEPT ![k] = row]
  BY <1>1, <1>2 DEF Completed, DraftRow, NoRevision
<1>5. /\ DOMAIN e.command = Commands /\ e.command[k] = row
      /\ \A j \in Commands : j # k => e.command[j] = d.command[j]
  BY <1>1, <1>4 DEF DraftRow
<1>6. /\ e.rev \in [1 .. e.current -> Content]
      /\ e.rev[e.current] = c
      /\ \A r \in 1 .. d.current : e.rev[r] = d.rev[r]
  <2>1. DOMAIN d.rev \cup {target} = 1 .. (d.current + 1)
    BY <1>1, <1>2 DEF DraftRow
  <2>2. \A r \in 1 .. (d.current + 1) : r # target => d.rev[r] \in Content
    BY <1>1, <1>2 DEF DraftRow
  <2> QED  BY <1>2, <1>4, <2>1, <2>2
<1>7. DraftRow(e)
  <2>1. e.command \in [Commands -> CommandRow]
    BY <1>1, <1>3, <1>4 DEF DraftRow
  <2>2. /\ target \in Nat /\ NoRevision \in Nat
        /\ [r \in DOMAIN d.rev \cup {target} |->
               IF r = target THEN c ELSE d.rev[r]]
               \in [1 .. (d.current + 1) -> Content]
    BY <1>2, <1>4, <1>6 DEF NoRevision
  <2>3. e \in [current : Nat, pending : Nat,
               rev : [1 .. (d.current + 1) -> Content],
               command : [Commands -> CommandRow]]
    BY <1>1, <2>1, <2>2 DEF DraftRow, Completed
  <2> QED  BY <1>4, <2>3 DEF DraftRow
<1>8. Numbered(e)
  <2>1. e.current >= 1
    BY <1>1, <1>2, <1>4 DEF Numbered
  <2>2. ASSUME NEW j \in Commands, Status(e, j) # "NEW"
        PROVE  /\ e.command[j].base >= 1
               /\ e.command[j].target = e.command[j].base + 1
               /\ Status(e, j) = "COMPLETED" => e.command[j].target <= e.current
    <3>1. CASE j = k
      BY <1>1, <1>2, <1>3, <1>4, <1>5, <3>1 DEF Numbered
    <3>2. CASE j # k
      <4>1. e.command[j] = d.command[j] /\ d.command[j] \in CommandRow
        BY <1>1, <1>5, <3>2 DEF DraftRow
      <4> QED  BY <1>1, <1>2, <1>4, <2>2, <4>1 DEF Numbered, Status, CommandRow
    <3> QED  BY <3>1, <3>2
  <2> QED  BY <2>1, <2>2 DEF Numbered
<1>9. \A j \in Commands : Status(e, j) # "CLAIMED"
  BY <1>2, <1>3, <1>5 DEF Status
<1>10. Held(e)
  BY <1>4, <1>9 DEF Held, NoRevision
<1>11. Written(e)
  <2>1. \A j \in Commands : Status(d, j) = "COMPLETED" =>
           d.command[j].target \in Nat /\ d.command[j].target <= d.current
    BY <1>1 DEF Numbered, DraftRow, CommandRow
  <2>2. ASSUME NEW r \in 2 .. e.current
        PROVE  \E j \in Commands : Status(e, j) = "COMPLETED" /\ e.command[j].target = r
    <3>1. CASE r = e.current
      BY <1>3, <1>4, <1>5, <3>1 DEF Status
    <3>2. CASE r # e.current
      <4>1. r \in 2 .. d.current
        BY <1>2, <1>4, <3>2
      <4>2. PICK j \in Commands : Status(d, j) = "COMPLETED" /\ d.command[j].target = r
        BY <1>1, <4>1 DEF Written
      <4> QED  BY <1>2, <1>5, <4>2 DEF Status
    <3> QED  BY <3>1, <3>2
  <2>3. ASSUME NEW i \in Commands, NEW j \in Commands,
               Status(e, i) = "COMPLETED", Status(e, j) = "COMPLETED",
               e.command[i].target = e.command[j].target
        PROVE  i = j
    <3>1. \A l \in Commands : l # k /\ Status(e, l) = "COMPLETED" =>
             /\ e.command[l].target # d.current + 1
             /\ Status(d, l) = "COMPLETED" /\ e.command[l] = d.command[l]
      BY <1>2, <1>5, <2>1 DEF Status
    <3>2. e.command[k].target = d.current + 1
      BY <1>3, <1>5
    <3>3. CASE i = k \/ j = k
      BY <2>3, <3>1, <3>2, <3>3
    <3>4. CASE i # k /\ j # k
      BY <1>1, <2>3, <3>1, <3>4 DEF Written
    <3> QED  BY <3>3, <3>4
  <2> QED  BY <2>2, <2>3 DEF Written
<1>12. Extends(e, d)
  BY <1>2, <1>4, <1>5, <1>6 DEF Extends, Status
<1> QED
  BY <1>3, <1>4, <1>5, <1>6, <1>7, <1>8, <1>9, <1>10, <1>11, <1>12 DEF DraftOK, Status

(* Failing a command changes nothing but its own claim.                    *)
LEMMA ReleasedOK ==
    ASSUME NEW d, DraftOK(d), NEW k \in Commands
    PROVE  LET e == Released(d, k) IN
           /\ DraftOK(e)
           /\ Extends(e, d)
           /\ e.current = d.current
           /\ e.rev = d.rev
           /\ \A j \in Commands : j # k => e.command[j] = d.command[j]
           /\ e.command[k].base = d.command[k].base
           /\ Status(e, k) = IF Status(d, k) = "CLAIMED" THEN "FAILED"
                                                         ELSE Status(d, k)
<1> DEFINE e == Released(d, k)
<1> DEFINE row == [d.command[k] EXCEPT !.status = "FAILED"]
<1>1. DraftRow(d) /\ Numbered(d) /\ Held(d) /\ Written(d)
  BY DEF DraftOK
<1>2. CASE Status(d, k) # "CLAIMED"
  <2>1. e = d
    BY <1>2 DEF Released
  <2> QED  BY <1>1, <1>2, <2>1 DEF DraftOK, Extends, DraftRow
<1>3. CASE Status(d, k) = "CLAIMED"
  <2>1. /\ HeadHolds(d, k) /\ d.current \in Nat
        /\ d.command[k] \in CommandRow
        /\ \A j \in Commands : Status(d, j) = "CLAIMED" => j = k
    BY <1>1, <1>3 DEF Held, DraftRow
  <2>2. /\ row \in CommandRow /\ row.status = "FAILED"
        /\ row.base = d.command[k].base /\ row.target = d.command[k].target
    BY <2>1 DEF CommandRow, CommandStatus
  <2>3. e = [d EXCEPT !.pending = NoRevision, !.command[k].status = "FAILED"]
    BY <1>3, <2>1 DEF Released
  <2>4. /\ e.current = d.current /\ e.pending = 0 /\ e.rev = d.rev
        /\ e.command = [d.command EXCEPT ![k] = row]
    BY <1>1, <2>3 DEF DraftRow, NoRevision
  <2>5. /\ DOMAIN e.command = Commands /\ e.command[k] = row
        /\ \A j \in Commands : j # k => e.command[j] = d.command[j]
    BY <1>1, <2>4 DEF DraftRow
  <2>6. DraftRow(e)
    <3>1. e.command \in [Commands -> CommandRow] /\ NoRevision \in Nat
      BY <1>1, <2>2, <2>4 DEF DraftRow, NoRevision
    <3>2. e \in [current : Nat, pending : Nat, rev : [1 .. d.current -> Content],
                 command : [Commands -> CommandRow]]
      BY <1>1, <2>3, <3>1 DEF DraftRow
    <3> QED  BY <2>4, <3>2 DEF DraftRow
  <2>7. Numbered(e)
    BY <1>1, <1>3, <2>1, <2>2, <2>4, <2>5 DEF Numbered, Status, DraftRow
  <2>8. Held(e)
    BY <2>1, <2>2, <2>4, <2>5 DEF Held, Status, NoRevision
  <2>9. Written(e)
    BY <1>1, <1>3, <2>2, <2>4, <2>5 DEF Written, Status
  <2>10. Extends(e, d)
    BY <1>3, <2>1, <2>4, <2>5 DEF Extends, Status
  <2> QED
    BY <1>3, <2>2, <2>4, <2>5, <2>6, <2>7, <2>8, <2>9, <2>10 DEF DraftOK, Status
<1> QED  BY <1>2, <1>3

(* Recovery fails the claims of other processes, and changes nothing when  *)
(* there is none.                                                          *)
LEMMA RecoveredOK ==
    ASSUME NEW d, DraftOK(d), NEW p
    PROVE  LET e == Recovered(d, p) IN
           /\ DraftOK(e)
           /\ Extends(e, d)
           /\ e.current = d.current
           /\ e.rev = d.rev
           /\ \A k \in Commands :
                 Status(e, k) = "CLAIMED" =>
                    Status(d, k) = "CLAIMED" /\ d.command[k].owner = p
           /\ \A k \in Commands : e.command[k].base = d.command[k].base
           /\ (\A k \in Commands : Status(d, k) = "CLAIMED" => d.command[k].owner = p)
              => e = d
<1> DEFINE e == Recovered(d, p)
<1> DEFINE rows == [k \in Commands |-> IF k \in Orphans(d, p)
                                       THEN [d.command[k] EXCEPT !.status = "FAILED"]
                                       ELSE d.command[k]]
<1>1. DraftRow(d) /\ Numbered(d) /\ Held(d) /\ Written(d)
  BY DEF DraftOK
<1>2. Orphans(d, p) = {k \in Commands : Status(d, k) = "CLAIMED" /\ d.command[k].owner # p}
  BY <1>1 DEF Orphans, Held
<1>3. CASE Orphans(d, p) = {}
  <2>1. rows = d.command
    BY <1>1, <1>3 DEF DraftRow
  <2>2. e = [d EXCEPT !.pending = d.pending, !.command = d.command]
    BY <1>3, <2>1 DEF Recovered
  <2>3. e = d
    BY <1>1, <2>2 DEF DraftRow
  <2> QED  BY <1>1, <1>2, <1>3, <2>3 DEF DraftOK, Extends, DraftRow
<1>4. CASE Orphans(d, p) # {}
  <2>1. PICK o \in Commands : Status(d, o) = "CLAIMED" /\ d.command[o].owner # p
    BY <1>2, <1>4
  <2>2. Orphans(d, p) = {o} /\ HeadHolds(d, o)
    BY <1>1, <1>2, <2>1 DEF Held
  <2>3. rows = [d.command EXCEPT ![o] = [d.command[o] EXCEPT !.status = "FAILED"]]
    BY <1>1, <2>2 DEF DraftRow
  <2>4. e = [d EXCEPT !.pending = NoRevision, !.command = rows]
    BY <1>4 DEF Recovered
  <2>5. Released(d, o) = [d EXCEPT !.pending = NoRevision, !.command = rows]
    BY <2>1, <2>2, <2>3 DEF Released
  <2>6. e = Released(d, o)
    BY <2>4, <2>5
  <2>7. /\ DraftOK(e) /\ Extends(e, d) /\ e.current = d.current /\ e.rev = d.rev
        /\ \A j \in Commands : j # o => e.command[j] = d.command[j]
        /\ e.command[o].base = d.command[o].base
        /\ Status(e, o) = "FAILED"
    BY <2>1, <2>6, ReleasedOK
  <2> QED  BY <1>1, <2>1, <2>7 DEF Held, Status
<1> QED  BY <1>3, <1>4

=============================================================================
