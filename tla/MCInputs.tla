------------------------------ MODULE MCInputs ------------------------------
(***************************************************************************)
(* The inputs on which the pure services are evaluated: recommendations,   *)
(* plans, recommendations from signed places, reviews, revisions, drafts.  *)
(***************************************************************************)
EXTENDS Integers, SequencesExt

CONSTANTS None, DiningLabels

RE == INSTANCE Recommendation
PQ == INSTANCE PlanRequests
RX == INSTANCE Relaxations

-----------------------------------------------------------------------------
(* Recommendations: eleven places, of which the provider finds some.       *)

Labels == {"museum", "park", "inn", "noodles", "dumplings"}

Alike(close) == [l \in Labels |-> IF l \in DOMAIN close THEN close[l] ELSE RE!NoMatch]

Unlike == Alike([l \in {} |-> 0])

PoolPlace(id, terms, price, at, match, words) ==
    [id |-> id, inCity |-> TRUE, source |-> "ONLINE", terms |-> terms, price |-> price,
     at |-> at, match |-> match, words |-> words, wishes |-> words]

Pool ==
    <<PoolPlace(1, {}, 1, 0, Alike([museum |-> 0]), {"art"}),
      PoolPlace(2, {}, None, 3, Alike([park |-> 2]), {"green"}),
      PoolPlace(3, {}, 2, 5, Alike([museum |-> 3]), {}),
      PoolPlace(4, {}, 0, 9, Unlike, {"green"}),
      PoolPlace(5, {"DINING"}, 3, 1, Alike([museum |-> 4, dumplings |-> 0]), {}),
      PoolPlace(6, {"DINING"}, 1, 8, Alike([noodles |-> 0]), {"art"}),
      PoolPlace(7, {"DINING"}, 2, 4, Alike([noodles |-> 1]), {}),
      PoolPlace(8, {"LODGING"}, 1, 2, Alike([inn |-> 0]), {}),
      PoolPlace(9, {"SERVICE"}, 1, 2, Alike([park |-> 1]), {}),
      PoolPlace(10, {}, 4, 7, Unlike, {}),
      PoolPlace(11, {}, 1, 6, Unlike, {})>>

Cached == [Pool[2] EXCEPT !.price = 1, !.source = "VERIFIED_CACHE"]

Elsewhere == [Pool[4] EXCEPT !.id = 12, !.inCity = FALSE]

\* More sights than a fact set holds, all of them liked better than a restaurant.
Sights == [i \in 1..7 |-> PoolPlace(20 + i, {}, 0, i, Unlike, {"art", "green"})]

FoundPlaces ==
    {Pool,
     Sights \o SubSeq(Pool, 5, 7),
     SubSeq(Pool, 1, 7) \o <<Pool[10]>>,
     <<Pool[1], Pool[2], Pool[3], Elsewhere, Pool[4], Pool[10], Pool[11], Cached>>,
     <<Pool[5], Pool[6], Pool[7], Pool[1], Pool[2], Pool[3]>>}

Rankings == {None, <<1, 2, 4>>, <<4, 5, 6, 11>>, <<1, 1, 2>>}

Musts == {<<>>, <<"museum">>, <<"noodles", "park">>, <<"noodles", "dumplings">>, <<"inn">>,
          <<"museum", "park", "noodles", "dumplings">>}

Traveller(must, avoid, cap) ==
    [must |-> must, avoid |-> avoid, wishes |-> {"art", "green"}, cap |-> cap,
     account |-> 1, care |-> 1]

Companies ==
    {<<Traveller(must, <<>>, None), Traveller(<<>>, avoid, cap)>> :
        must \in Musts, avoid \in {<<>>, <<"park">>}, cap \in {None, 2}}

SharedTrips == [start : {9, 14}, end : {17, 20}, total : {9}]

RecommendationSamples ==
    {[found |-> found, ranking |-> ranking, trip |-> RE!CanonicalTrip(revision).value] :
        found \in FoundPlaces, ranking \in Rankings,
        revision \in {[shared |-> s, members |-> m] : s \in SharedTrips, m \in Companies}}

-----------------------------------------------------------------------------
(* Plans: a morning, a noon and an evening task.                           *)

Profile(type, segment, daily, transfers, rest, nap, stairs) ==
    [type |-> type, segment |-> segment, daily |-> daily, transfers |-> transfers,
     rest |-> rest, nap |-> nap, stairs |-> stairs]

Cares ==
    {None,
     Profile("LOW_STAMINA", 3, 6, None, None, None, FALSE),
     Profile("LOW_STAMINA", 4, None, 1, 4, None, FALSE),
     Profile("PARENT_CHILD", None, 7, None, None, <<6, 7>>, FALSE),
     Profile("PARENT_CHILD", None, None, 2, 2, <<10, 11>>, FALSE),
     Profile("MOBILITY_ASSISTANCE_BETA", None, None, None, None, None, TRUE)}

Member(care, cap) ==
    [care |-> care, cap |-> cap, must |-> {}, avoid |-> {}, wishes |-> ("art" :> 4)]

TripOf(members) ==
    [start |-> 0, end |-> 16, total |-> 12, day |-> 12, city |-> 1, startText |-> 0,
     endText |-> 3, members |-> members]

RouteTo(mode, origin, dest) ==
    [mode |-> mode, origin |-> origin, dest |-> dest, minutes |-> 1, meters |-> 3,
     walking |-> 2, transfers |-> 1, price |-> 1, source |-> "ONLINE", facilities |-> <<>>]

TaskAt(i, mode) ==
    [from |-> 4 * i, to |-> 4 * i + 2, ends |-> i, city |-> 1, elapsed |-> 2,
     words |-> IF i = 1 THEN {"art"} ELSE {}, restBefore |-> None, restOnArrival |-> None,
     place |-> [at |-> i, name |-> i, city |-> 1, price |-> 2, source |-> "ONLINE"],
     route |-> RouteTo(mode, i - 1, i)]

RequestOf(members, modes) ==
    [trip |-> TripOf(members), confirmed |-> PQ!GroupConstraints(members),
     start |-> [text |-> 0, city |-> 1, at |-> 0, source |-> "ONLINE"],
     end |-> [text |-> 3, city |-> 1, at |-> 3, source |-> "ONLINE"],
     tasks |-> [i \in 1..3 |-> TaskAt(i, modes[i])]]

Groups == {<<Member(c, 12), Member(d, cap)>> : c \in Cares, d \in Cares, cap \in {9, 12}}

Modes == {<<"TAXI", "TAXI", "TAXI">>, <<"WALKING", "TAXI", "WALKING">>,
          <<"TAXI", "TRANSIT", "TRANSIT">>}

Sound == {RequestOf(g, m) : g \in Groups, m \in Modes}

\* Tasks that take longer, are later or are farther from the last rest.
Varied ==
    {[r EXCEPT !.tasks[2].to = 11] : r \in Sound}
    \cup {[r EXCEPT !.tasks[3].elapsed = 4, !.tasks[3].route.meters = 4] : r \in Sound}

\* Facts that do not fit together.
Mixed ==
    LET r == RequestOf(<<Member(None, 12)>>, [i \in 1..3 |-> "TAXI"])
    IN  {[r EXCEPT !.confirmed = ("stairs" :> TRUE)],
         [r EXCEPT !.start.city = 2], [r EXCEPT !.end.text = 2],
         [r EXCEPT !.tasks[2].place.city = 2], [r EXCEPT !.tasks[1].ends = 2],
         [r EXCEPT !.tasks[2].route.origin = 2], [r EXCEPT !.tasks[3].route.minutes = 3],
         [r EXCEPT !.end.at = 4], [r EXCEPT !.tasks[1].to = 3], [r EXCEPT !.tasks[2].elapsed = 0],
         [r EXCEPT !.tasks[2].restBefore = <<6, 8>>],
         [r EXCEPT !.tasks[2].restBefore = <<6, 7>>],
         [r EXCEPT !.tasks[2].restOnArrival = <<7, 8>>, !.tasks[2].restBefore = <<6, 7>>],
         [r EXCEPT !.tasks[2].route.mode = "TRANSIT", !.tasks[2].route.walking = None]}

PlanSamples == Sound \cup Varied \cup Mixed

-----------------------------------------------------------------------------
(* Reviews: candidates of which some facts are unknown, and answers.       *)

Evidence(type, status, source) == [type |-> type, status |-> status, source |-> source]

Accessible == SetToSeq({Evidence(f, "PASS", "ONLINE") : f \in PQ!Facilities})

Evidences ==
    {Accessible,
     [Accessible EXCEPT ![1].status = "NEEDS_CONFIRMATION", ![2].source = "UNKNOWN"],
     Tail(Accessible),
     Append(Accessible, Accessible[1])}

\* A request whose routes all have the same evidence, and which lacks some facts.
Unclear(member, evidence, price, source) ==
    LET r == RequestOf(<<member>>, [i \in 1..3 |-> "TAXI"])
        known == [r EXCEPT !.tasks = [i \in 1..3 |-> [@[i] EXCEPT !.route.facilities = Accessible]]]
    IN  [known EXCEPT !.tasks[2].route.facilities = evidence,
                      !.tasks[1].place.price = price, !.tasks[1].route.price = price,
                      !.tasks[3].place.source = source, !.start.source = source]

UnclearRequests ==
    {Unclear(Member(c, 12), e, price, source) :
        c \in {None, Profile("PARENT_CHILD", None, None, None, None, None, FALSE)},
        e \in Evidences, price \in {2, None}, source \in {"ONLINE", "UNKNOWN"}}

Answer(w, place, route, status) ==
    [amount |-> IF w.code # "UNKNOWN_PRICE" THEN None
                ELSE IF w.fact = "place" THEN place ELSE route,
     facility |-> IF w.code = "UNKNOWN_FACILITY" THEN status ELSE None,
     source |-> IF w.code = "UNKNOWN_SOURCE" THEN TRUE ELSE None]

\* Everything is answered, something is left out, or prices are not answered.
AnswersTo(items) ==
    {[w \in items |-> Answer(w, place, route, status)] :
        place \in {0, 3, None}, route \in {1, 4}, status \in {"PASS", "FAIL"}}
    \cup {[w \in items \ {v} |-> Answer(w, 0, 0, "PASS")] : v \in items}

ReviewSamples ==
    UNION {LET candidate == PQ!Candidate(r)
           IN  {[candidate |-> candidate, answers |-> a] : a \in AnswersTo(candidate.warnings)} :
              r \in {s \in UnclearRequests : PQ!Candidate(s).warnings # {}}}

-----------------------------------------------------------------------------
(* Recommendations from six signed places, the last of which is the end.   *)

SignedTrip(must, avoid, cap) ==
    [TripOf(<<[Member(None, cap) EXCEPT !.must = must],
              [Member(Profile("LOW_STAMINA", 3, 6, None, None, None, FALSE), 12)
                  EXCEPT !.avoid = avoid, !.wishes = ("green" :> 4 @@ "art" :> 2)]>>)
        EXCEPT !.endText = 6]

FactsOf(trip) ==
    [trip |-> trip, confirmed |-> PQ!GroupConstraints(trip.members), places |-> 1..6,
     start |-> [text |-> 0, city |-> 1, at |-> 0, source |-> "ONLINE"],
     end |-> [text |-> 6, city |-> 1, at |-> 6, source |-> "ONLINE"]]

WordsOf(place) == CASE place \in {1, 4} -> {"art"} [] place \in {2, 7} -> {"green"}
                    [] place = 3 -> {"noise"} [] OTHER -> {}

\* The builder walks to the third place and takes a taxi to the others; a
\* place of an order may be missing, or one be added that was not signed.
Stops(builder, order) ==
    CASE builder = "honest" -> SelectSeq(order, LAMBDA p : p # 6) \o <<6>>
      [] builder = "generous" -> <<7>> \o SelectSeq(order, LAMBDA p : p # 6) \o <<6>>
      [] builder = "forgetful" -> <<4, 5, 6>>

RequestFor(facts, stops) ==
    [trip |-> facts.trip, confirmed |-> facts.confirmed, start |-> facts.start, end |-> facts.end,
     tasks |-> [i \in DOMAIN stops |->
        [TaskAt(i, IF stops[i] = 3 THEN "WALKING" ELSE "TAXI") EXCEPT
            !.from = 3 * i, !.to = 3 * i + 1, !.ends = stops[i], !.words = WordsOf(stops[i]),
            !.place.at = stops[i], !.place.name = stops[i],
            !.place.price = IF stops[i] = 5 THEN None ELSE 2,
            !.route.origin = IF i = 1 THEN 0 ELSE stops[i - 1], !.route.dest = stops[i]]]]

Build(facts, builder, order) ==
    IF 5 \in ToSet(order) /\ 3 \in ToSet(order) THEN None
    ELSE [order |-> order, detour |-> order[1],
          request |-> RequestFor(facts, Stops(builder, order))]

Ids == [i \in 1..6 |-> i]

Enumerated == ToSet(PQ!DeterministicOrders(Ids))

\* The answers of the builder to the orders that it may be asked for.
Routed(facts, proposal, builder) ==
    [order \in Enumerated \cup ({proposal} \ {None}) |-> Build(facts, builder, order)]

SignedSamples ==
    {LET facts == FactsOf(SignedTrip(must, avoid, cap))
     IN  [facts |-> facts, ids |-> Ids, proposal |-> proposal,
          routed |-> Routed(facts, proposal, builder)] :
        must \in {{}, {"art"}, {"green"}}, avoid \in {{}, {"noise"}, {"green"}}, cap \in {9, 12},
        proposal \in {None, <<1, 2>>, <<2, 3>>, <<3, 2, 4>>},
        builder \in {"honest", "generous", "forgetful"}}

-----------------------------------------------------------------------------
(* Revisions of groups of any size, confirmed by all.                      *)

RevisionOf(n, nickname, cap) ==
    [shared |-> [total |-> 12, city |-> 1, start |-> 0, end |-> 16],
     members |-> [i \in 1..n |->
        [key |-> i, id |-> i, nickname |-> nickname, cap |-> cap, must |-> {}, avoid |-> {},
         wishes |-> {}, care |-> None]]]

RevisionSamples ==
    {[revision |-> RevisionOf(n, nickname, cap), city |-> city, confirmed |-> c] :
        n \in 1..20, nickname \in {None, 99}, cap \in {None, 9}, city \in {1, 2}, c \in BOOLEAN}

-----------------------------------------------------------------------------
(* Drafts of two members, with what keeps them from being agreed.          *)

Traits(cap, must, avoid, care) == [cap |-> cap, must |-> must, avoid |-> avoid, care |-> care]

CareOf(valid, nap) == [valid |-> valid, nap |-> nap]

Companions ==
    {<<m, n>> :
        m \in {Traits(None, <<1>>, <<>>, CareOf(TRUE, None)),
              Traits(3, <<1, 2>>, <<2>>, CareOf(TRUE, None)),
              Traits(12, <<>>, <<>>, CareOf(TRUE, <<9, 13>>))},
        n \in {Traits(4, <<>>, <<1>>, CareOf(TRUE, None)),
              Traits(5, <<2>>, <<2, 1>>, CareOf(TRUE, <<12, 18>>)),
              Traits(None, <<>>, <<>>, None),
              Traits(None, <<>>, <<>>, CareOf(FALSE, None))}}

Ambiguities ==
    {[p \in {} |-> {}],
     RX!Path(0, "end", 0) :> {17, 19},
     RX!Path(2, "cap", 0) :> {4, 6},
     RX!Path(1, "must", 1) :> {2, 3}}

DraftOf(trip, members, missing, candidates) ==
    LET u == [trip |-> trip, members |-> members, missing |-> missing, candidates |-> candidates,
              questions |-> missing \cup DOMAIN candidates, evidence |-> {}]
    IN  [u EXCEPT !.evidence = RX!Valued(u)]

DraftSamples ==
    {u \in {DraftOf(trip, members, missing, candidates) :
               trip \in [start : {9}, end : {None, 8, 18}, budget : {None, 5}],
               members \in Companions, candidates \in Ambiguities,
               missing \in {{}, {RX!Path(0, "budget", 0)}}} :
        RX!Valid(u)}
=============================================================================
