-------------------------- MODULE RevisionContract --------------------------
(***************************************************************************)
(* What the collaboration promises about the revisions of a shared trip,   *)
(* whoever answers, reviews, plans or crashes: a revision is saved on top  *)
(* of the published one, published after it was saved and before the next  *)
(* one is saved, and planning is granted to one operation at a time, for a *)
(* draft that is published as it is saved. Nothing is published while      *)
(* planning is granted; a revision may still be saved.                     *)
(***************************************************************************)
EXTENDS Naturals

CONSTANT Operations

VARIABLES saved, published, granted

vars == <<saved, published, granted>>

Init == saved = 1 /\ published = 1 /\ granted = {}

Save ==
    /\ saved = published
    /\ saved' = saved + 1
    /\ UNCHANGED <<published, granted>>

Publish ==
    /\ saved = published + 1
    /\ granted = {}
    /\ published' = saved
    /\ UNCHANGED <<saved, granted>>

Grant(op) ==
    /\ granted = {}
    /\ saved = published
    /\ granted' = {op}
    /\ UNCHANGED <<saved, published>>

End(op) ==
    /\ granted = {op}
    /\ granted' = {}
    /\ UNCHANGED <<saved, published>>

Next == Save \/ Publish \/ \E op \in Operations : Grant(op) \/ End(op)

Spec == Init /\ [][Next]_vars
=============================================================================
