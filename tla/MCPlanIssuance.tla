--------------------------- MODULE MCPlanIssuance ---------------------------
(***************************************************************************)
(* Instances of PlanIssuance for TLC: a V1 that needs no confirmation, two *)
(* V1 made by confirming the candidates k1 and k2, a V2 and an adjustment. *)
(* Each plan has one task. A revision says one of two things of the trip,  *)
(* and the candidates differ in it.                                        *)
(***************************************************************************)
EXTENDS PlanIssuance, TLC

CONSTANTS t1, d1, c1, c2, v1, a1, k1, k2, same, other

Day == <<[id |-> "x", slot |-> 1]>>
Days == {Day}

Plans == {d1, c1, c2, v1, a1}
KindOfPlan == d1 :> "V1" @@ c1 :> "V1" @@ c2 :> "V1" @@ v1 :> "V2" @@ a1 :> "ADJUSTMENT"
Candidates == [p \in Plans |-> CASE p = c1 -> k1 [] p = c2 -> k2 [] OTHER -> None]
Contents == [x \in Plans \cup {k1, k2} |-> IF x \in {c2, k2} THEN other ELSE same]
Tasks == [p \in Plans |-> Day]
=============================================================================
