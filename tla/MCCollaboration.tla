--------------------------- MODULE MCCollaboration ---------------------------
(***************************************************************************)
(* Instances of Collaboration for TLC: an organizer and one or two members *)
(* who send the answers, and change proposals with their approvals.        *)
(***************************************************************************)
EXTENDS Collaboration, TLC

CONSTANTS ann, ben, s1, s2, a1, a2, x1

\* Both answers are ann's.
AnnAnswers == s1 :> ann @@ s2 :> ann
AnnAnswer == s1 :> ann

\* One answer each.
EachAnswers == s1 :> ann @@ s2 :> ben

NoApproval == [a \in {} |-> x1]
OneApproval == a1 :> x1
TwoApprovals == a1 :> x1 @@ a2 :> x1
Symmetry == Permutations(Owners) \cup Permutations(Operations)
=============================================================================
