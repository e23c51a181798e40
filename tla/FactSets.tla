------------------------------ MODULE FactSets ------------------------------
(***************************************************************************)
(* The sets of places that the server signs for a recommendation and gives *)
(* back later: SqliteProviderFactRegistry and the routes of                *)
(* recommendation_routes.py, for one trip whose members go on revising     *)
(* what they agreed on.                                                    *)
(*                                                                         *)
(* Which places are signed and recommended is Recommendation's business:   *)
(* here they are any of those found.  How the members answer, object and   *)
(* confirm is Collaboration's: here the group is ready or it is not.  The  *)
(* readiness guard (collaboration_readiness.py) and a fetch are code       *)
(* without an await on the one event loop, so each is one step; only the   *)
(* death of the process can come between the transactions of a fetch.      *)
(***************************************************************************)
EXTENDS Naturals, FiniteSets

CONSTANTS None,
          Run,            \* requests for a recommendation
          Fetch,          \* operation ids of requests for the places of a set
          Place,          \* what the map provider may find
          MaxTerms,       \* search terms of one request
          MinPlaces,      \* places of a set that is signed
          MaxRevision     \* bound: revisions

VARIABLES agreed,         \* the current revision of the draft
          ready,          \* whether the group can plan on it (_derive)
          holder,         \* whose lease is in force
          runs,           \* the requests for a recommendation
          fetches,        \* collaboration_operation_leases of the fetches
          factSets        \* provider_fact_sets and their references

vars == <<agreed, ready, holder, runs, fetches, factSets>>

Draft == [revision : 1..MaxRevision, places : SUBSET Place]

\* The digest of everything that is signed.
ContentDigest(draft) == <<draft.places, draft.revision>>

Digests == {ContentDigest(d) : d \in Draft}

FactSet == [digest : Digests, draft : Draft]

\* The places of a run are those found, then those signed, then the plan.
NewRun == [at |-> "new", revision |-> 0, terms |-> 0, digest |-> None, places |-> {}]

\* What a handler that failed had found or signed is not answered.
FailedRun == [NewRun EXCEPT !.at = "failed"]

\* The lease row of an operation id: the revision of the readiness digest it
\* was written with, none yet when 0, and whether it was given back.
NoRow == [revision |-> 0, completed |-> FALSE]

TypeOK ==
    /\ agreed \in 1..MaxRevision /\ ready \in BOOLEAN
    /\ holder \in Run \cup Fetch \cup {None}
    /\ fetches \in [Fetch -> [revision : 0..MaxRevision, completed : BOOLEAN]]
    /\ runs \in [Run -> [at : {"new", "searching", "signed", "answered", "failed"},
                         revision : 0..MaxRevision, terms : 0..MaxTerms,
                         digest : Digests \cup {None}, places : SUBSET Place]]
    /\ factSets \subseteq FactSet

-----------------------------------------------------------------------------
(* The agreement.  An answer that was sent before a lease was taken is     *)
(* saved, or fails, under the lease; the confirmations wait for its end.   *)

Revise ==
    /\ agreed < MaxRevision
    /\ agreed' = agreed + 1 /\ ready' = FALSE
    /\ UNCHANGED <<holder, runs, fetches, factSets>>

Object ==
    /\ ready /\ ready' = FALSE
    /\ UNCHANGED <<agreed, holder, runs, fetches, factSets>>

Confirm ==
    /\ ~ready /\ holder = None
    /\ ready' = TRUE
    /\ UNCHANGED <<agreed, holder, runs, fetches, factSets>>

\* The lease expires; the run that held it goes on.
Lapse ==
    /\ holder # None
    /\ holder' = None
    /\ UNCHANGED <<agreed, ready, runs, fetches, factSets>>

-----------------------------------------------------------------------------
(* A recommendation.                                                       *)

Released(r) == IF holder = r THEN None ELSE holder

Begin(r) ==
    /\ runs[r].at = "new" /\ ready /\ holder = None
    /\ holder' = r
    /\ runs' = [runs EXCEPT ![r].at = "searching", ![r].revision = agreed]
    /\ UNCHANGED <<agreed, ready, fetches, factSets>>

Enough(found) == Cardinality(found) >= MinPlaces

\* One term after the other, until what is left of the answers is enough.
Search(r, answer) ==
    /\ runs[r].at = "searching" /\ runs[r].terms < MaxTerms /\ ~Enough(runs[r].places)
    /\ runs' = [runs EXCEPT ![r].places = @ \cup answer, ![r].terms = @ + 1]
    /\ UNCHANGED <<agreed, ready, holder, fetches, factSets>>

\* A set is signed once; it stays as it was when it is signed again.
Issued(draft) ==
    IF \E s \in factSets : s.digest = ContentDigest(draft) THEN factSets
    ELSE factSets \cup {[digest |-> ContentDigest(draft), draft |-> draft]}

\* Mutant: the revision is read again when the places are signed.
IssueForCurrent(r, places) ==
    LET draft == [revision |-> agreed, places |-> places]
    IN  /\ runs[r].at = "searching" /\ Enough(places) /\ places \subseteq runs[r].places
        /\ factSets' = Issued(draft)
        /\ runs' = [runs EXCEPT ![r].at = "signed", ![r].places = places,
                                ![r].digest = ContentDigest(draft)]
        /\ UNCHANGED <<agreed, ready, holder, fetches>>

Issue(r, places) ==
    LET draft == [revision |-> runs[r].revision, places |-> places]
    IN  /\ runs[r].at = "searching" /\ Enough(places) /\ places \subseteq runs[r].places
        /\ factSets' = Issued(draft)
        /\ runs' = [runs EXCEPT ![r].at = "signed", ![r].places = places,
                                ![r].digest = ContentDigest(draft)]
        /\ UNCHANGED <<agreed, ready, holder, fetches>>

\* The model ranks the places, a plan is chosen, and the lease is given back.
Answer(r, plan) ==
    /\ runs[r].at = "signed" /\ plan # {} /\ plan \subseteq runs[r].places
    /\ runs' = [runs EXCEPT ![r].at = "answered", ![r].places = plan]
    /\ holder' = Released(r)
    /\ UNCHANGED <<agreed, ready, fetches, factSets>>

\* The provider or the model fails, or too little was found.
Fail(r) ==
    /\ runs[r].at \in {"searching", "signed"}
    /\ runs' = [runs EXCEPT ![r] = FailedRun]
    /\ holder' = Released(r)
    /\ UNCHANGED <<agreed, ready, fetches, factSets>>

Stopped == [r \in Run |-> IF runs[r].at \in {"searching", "signed"} THEN FailedRun ELSE runs[r]]

\* The process dies; what it signed and the lease stay.
Crash ==
    /\ runs' = Stopped /\ runs' # runs
    /\ UNCHANGED <<agreed, ready, holder, fetches, factSets>>

-----------------------------------------------------------------------------
(* The set of an answer: GET .../provider-fact-sets/{fact_set_id}/places.  *)

\* An operation id is not taken again for another revision, nor when the
\* process died under its lease and the lease has expired since.
Outdated(f) ==
    LET row == fetches[f]
    IN  row.revision # 0 /\ (row.revision = agreed => ~row.completed /\ holder # f)

\* What the readiness guard answers a fetch; OK lets it through.
Guard(f) ==
    IF ~ready THEN "COLLABORATION_NOT_READY"
    ELSE IF Outdated(f) THEN "COLLABORATION_OPERATION_STALE"
    ELSE IF holder # None THEN "COLLABORATION_OPERATION_IN_PROGRESS"
    ELSE "OK"

\* What a fetch of the set id answers in this state, given the digest that
\* the client expects.  A set is named by its digest.
PlacesOf(f, id, digest) ==
    LET stored == {s \in factSets : s.digest = id}
        draft == (CHOOSE s \in stored : TRUE).draft
    IN  IF Guard(f) # "OK" THEN [code |-> Guard(f)]
        ELSE IF stored = {} THEN [code |-> "PROVIDER_FACT_SET_NOT_FOUND"]
        ELSE IF digest # id THEN [code |-> "PROVIDER_FACT_DIGEST_MISMATCH"]
        ELSE IF draft.revision # agreed THEN [code |-> "PROVIDER_FACT_READY_CONTEXT_STALE"]
        ELSE [code |-> "OK", places |-> draft.places]

\* Whatever it answers, a fetch that is not refused leaves its lease given back.
FetchPlaces(f) ==
    /\ Guard(f) = "OK"
    /\ fetches' = [fetches EXCEPT ![f] = [revision |-> agreed, completed |-> TRUE]]
    /\ UNCHANGED <<agreed, ready, holder, runs, factSets>>

\* The process dies after the lease was taken and before it is given back.
CutOff(f) ==
    /\ Guard(f) = "OK"
    /\ holder' = f
    /\ fetches' = [fetches EXCEPT ![f] = [revision |-> agreed, completed |-> FALSE]]
    /\ runs' = Stopped
    /\ UNCHANGED <<agreed, ready, factSets>>

Init ==
    /\ agreed = 1 /\ ready = TRUE /\ holder = None /\ factSets = {}
    /\ runs = [r \in Run |-> NewRun]
    /\ fetches = [f \in Fetch |-> NoRow]

Next ==
    \/ Revise \/ Object \/ Confirm \/ Lapse \/ Crash
    \/ \E r \in Run :
          \/ Begin(r) \/ Fail(r)
          \/ \E places \in SUBSET Place : Search(r, places) \/ Issue(r, places) \/ Answer(r, places)
    \/ \E f \in Fetch : FetchPlaces(f) \/ CutOff(f)

Spec == Init /\ [][Next]_vars

(***************************************************************************)
(* Whoever was recommended places that fit what is agreed on can fetch     *)
(* their facts.  A fetch of the set that an answer names, with the digest  *)
(* that it names, is handed the facts if and only if the readiness guard   *)
(* lets it through (the group is ready, no lease is in force, and its      *)
(* operation id is not outdated) and the revision of the answer is still   *)
(* the current one; once let through, nothing but a later revision keeps   *)
(* it from them; and what it is handed holds every place of the answer.    *)
(* A run whose lease has lapsed signs for a revision that may be gone, and *)
(* two runs may sign the same places for two revisions.                    *)
(***************************************************************************)
AnsweredFactsAreServable ==
    \A r \in Run, f \in Fetch :
        runs[r].at = "answered" =>
            LET served == PlacesOf(f, runs[r].digest, runs[r].digest)
            IN  /\ served.code = "OK" <=> Guard(f) = "OK" /\ runs[r].revision = agreed
                /\ Guard(f) = "OK" /\ runs[r].revision # agreed =>
                       served.code = "PROVIDER_FACT_READY_CONTEXT_STALE"
                /\ served.code = "OK" => runs[r].places \subseteq served.places
=============================================================================
