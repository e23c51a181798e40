-------------------------- MODULE MCTripExecution --------------------------
(***************************************************************************)
(* Instances of TripExecution for TLC.  A day of the program has three to  *)
(* six tasks; here a day has two or three, so that a V2 can be shorter     *)
(* than the V1 it replaces.                                                *)
(***************************************************************************)
EXTENDS TripExecution, TLC

Fact(id, slot) == [id |-> id, slot |-> slot]

\* The V1, a V2 that moves its last task, one that puts a new task for the last two
\* and one that drops the last.
Days ==
    LET a == Fact("a", 1)
        b == Fact("b", 2)
    IN  {<<a, b, Fact("c", 3)>>, <<a, b, Fact("c", 4)>>, <<a, Fact("d", 3)>>, <<a, b>>}

Symmetry == Permutations(Plan) \cup Permutations(Key) \cup Permutations(Worker)
=============================================================================
