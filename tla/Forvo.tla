---------------------------------- MODULE Forvo ----------------------------------
(***************************************************************************)
(* The pronounce command: for a term, the recordings that forvo.com has in *)
(* English and in Spanish are scraped from its page, and in each language  *)
(* the one whose accent is closest to the requested country is downloaded  *)
(* and sent.  How close two accents are is the distance of their countries *)
(* in a graph; distances are cached for all commands behind a mutex.       *)
(***************************************************************************)
EXTENDS Naturals, SequencesExt

CONSTANTS
    Far,        \* u32::MAX / 2, between the two languages
    Slots,      \* tasks that run the command
    Requests,   \* the countries that are asked for, or None
    Pages,      \* the pages of forvo.com: sequences of containers
    Lapses,     \* what may go wrong: "page", "download"
    None

U32Max == 2 * Far + 1

English == {"UnitedStates", "Canada", "UnitedKingdom", "Ireland", "Australia", "NewZealand"}

Spanish == {"Argentina", "Uruguay", "Chile", "Peru", "Bolivia", "Paraguay", "Ecuador", "Colombia",
            "Venezuela", "Panama", "CostaRica", "ElSalvador", "Nicaragua", "Guatemala", "Honduras",
            "Mexico", "Cuba", "DominicanRepublic", "Spain"}

Countries == English \cup Spanish

\* Why a recording was not read: its country has no flag here, or anything else.
Errors == {"unknownCountry", "broken"}

Containers == [language : {"English", "Spanish", "other"}, entries : Seq(Countries \cup Errors)]

ASSUME ForvoAssumption ==
    /\ Far \in Nat /\ Far > 100
    /\ None \notin Countries
    /\ Requests \subseteq Countries \cup {None}
    /\ Pages \subseteq Seq(Containers)

VARIABLES
    accentDifferences,  \* the cached distances, by pairs of countries
    pc,                 \* where each command is
    requested,          \* the country it was given
    page,               \* the containers it looks at, in the order of the page
    closest,            \* the recording chosen in each of the first of them, 0 if there is none
    downloads,          \* what became of the chosen recordings
    replies             \* what the command has answered so far

task == <<pc, requested, page, closest, downloads>>
vars == <<accentDifferences, task, replies>>

\* What a command answers; a recording is the k-th of the i-th container.
Refused == <<"refused">>
Fail == <<"fail">>
NothingFound == <<"nothingFound">>
Recording(i, k) == <<"recording", i, k>>

Init ==
    /\ accentDifferences = <<>>
    /\ pc = [t \in Slots |-> "idle"] /\ requested = [t \in Slots |-> None]
    /\ page = [t \in Slots |-> <<>>] /\ closest = [t \in Slots |-> <<>>]
    /\ downloads = [t \in Slots |-> <<>>] /\ replies = [t \in Slots |-> {}]
-----------------------------------------------------------------------------
(***************************************************************************)
(* The distance of accents.                                                *)
(***************************************************************************)

\* Edges of the same weight, with the countries at either end.
Weighted(weight, pairs) == {<<pair[1], pair[2], weight>> : pair \in pairs}

\* COUNTRY_GRAPH.  Who records in the other language is farther than any native.
CountryGraph ==
    UNION {
        Weighted(1, {<<"Argentina", "Uruguay">>, <<"Bolivia", "Peru">>, <<"Colombia", "Venezuela">>,
                     <<"DominicanRepublic", "Cuba">>, <<"Panama", "CostaRica">>,
                     <<"CostaRica", "ElSalvador">>, <<"ElSalvador", "Nicaragua">>,
                     <<"Nicaragua", "Guatemala">>, <<"Guatemala", "Honduras">>,
                     <<"Honduras", "Mexico">>, <<"UnitedStates", "Canada">>}),
        Weighted(2, {<<"Argentina", "Paraguay">>, <<"Bolivia", "Ecuador">>,
                     <<"Venezuela", "DominicanRepublic">>, <<"Venezuela", "Cuba">>,
                     <<"Panama", "Mexico">>, <<"Australia", "NewZealand">>}),
        Weighted(3, {<<"Argentina", "Chile">>, <<"Argentina", "Peru">>, <<"Chile", "Bolivia">>,
                     <<"Peru", "Paraguay">>}),
        Weighted(4, {<<"Ecuador", "Colombia">>, <<"Colombia", "Panama">>,
                     <<"UnitedKingdom", "Ireland">>}),
        Weighted(5, {<<"UnitedKingdom", "Australia">>}),
        Weighted(10, {<<"Canada", "UnitedKingdom">>}),
        Weighted(11, {<<"UnitedStates", "Australia">>}),
        Weighted(30, {<<"Spain", "Argentina">>}),
        Weighted(Far, {<<"Argentina", "UnitedStates">>})}

\* An edge leads both ways.
From(c) == {<<e[2], e[3]>> : e \in {e \in CountryGraph : e[1] = c}}
           \cup {<<e[1], e[3]>> : e \in {e \in CountryGraph : e[2] = c}}

\* Mutant: the countries are settled in any order, not the nearest first.
SettleAny(state) ==
    LET c == CHOOSE c \in Countries \ state.settled : state.dist[c] < U32Max
    IN  [settled |-> state.settled \cup {c},
         dist |-> [d \in Countries |->
                     IF \E way \in From(c) : /\ way[1] = d /\ d \notin state.settled
                                             /\ state.dist[c] + way[2] < state.dist[d]
                     THEN state.dist[c] + (CHOOSE way \in From(c) : way[1] = d)[2]
                     ELSE state.dist[d]]]

\* One round of petgraph's dijkstra: the nearest country that is not settled.
Settle(state) ==
    LET c == CHOOSE c \in Countries \ state.settled :
                 \A d \in Countries \ state.settled : state.dist[c] <= state.dist[d]
    IN  [settled |-> state.settled \cup {c},
         dist |-> [d \in Countries |->
                     IF \E way \in From(c) : /\ way[1] = d /\ d \notin state.settled
                                             /\ state.dist[c] + way[2] < state.dist[d]
                     THEN state.dist[c] + (CHOOSE way \in From(c) : way[1] = d)[2]
                     ELSE state.dist[d]]]

Dijkstra(start) ==
    FoldLeft(LAMBDA state, round : Settle(state),
             [settled |-> {}, dist |-> [c \in Countries |-> IF c = start THEN 0 ELSE U32Max]],
             [round \in 1..Cardinality(Countries) |-> round]).dist

\* The distances dijkstra gives, for every country it may be asked about.
Distances == [start \in Countries |-> Dijkstra(start)]
-----------------------------------------------------------------------------
(***************************************************************************)
(* The closest recording of a container.                                   *)
(***************************************************************************)

\* Without a request, English is compared with the United States and Spanish
\* with Argentina.
Base(request, language) ==
    IF request # None THEN request
    ELSE IF language = "English" THEN "UnitedStates" ELSE "Argentina"

\* A pair that is missing is inserted with all that dijkstra found.
InsertRow(base, cache) ==
    [pair \in DOMAIN cache \cup {<<base, c>> : c \in Countries} |->
        IF pair[1] = base THEN Distances[base][pair[2]] ELSE cache[pair]]

\* recording_to_distance leaves the pair in the cache, where it is then read.
Known(base, country, cache) ==
    IF <<base, country>> \in DOMAIN cache THEN cache ELSE InsertRow(base, cache)

\* Mutant: a recording as close as the one before replaces it.
IsAsClose(new, current, request, base, cache) ==
    LET after == Known(base, new, cache)
    IN  IF new = current \/ current = request
        THEN [closer |-> FALSE, cache |-> cache]
        ELSE [closer |-> after[<<base, new>>] <= after[<<base, current>>], cache |-> after]

IsCloser(new, current, request, base, cache) ==
    LET after == Known(base, new, cache)
    IN  IF new = current \/ current = request
        THEN [closer |-> FALSE, cache |-> cache]
        ELSE [closer |-> after[<<base, new>>] < after[<<base, current>>], cache |-> after]

\* possible_recordings_to_data: the first recording is kept until a closer one comes.
ClosestOf(entries, request, language, cache) ==
    LET Consider(chosen, i) ==
            LET result == IsCloser(entries[i], entries[chosen.at], request,
                                   Base(request, language), chosen.cache)
            IN  CASE entries[i] \in Errors -> chosen
                  [] entries[i] \notin Errors /\ chosen.at = 0 -> [chosen EXCEPT !.at = i]
                  [] OTHER -> [at |-> IF result.closer THEN i ELSE chosen.at, cache |-> result.cache]
    IN  FoldLeftDomain(Consider, [at |-> 0, cache |-> cache], entries)
-----------------------------------------------------------------------------
(***************************************************************************)
(* The command.                                                            *)
(***************************************************************************)
\* The last reply is sent.
Done(t) ==
    /\ pc' = [pc EXCEPT ![t] = "idle"] /\ requested' = [requested EXCEPT ![t] = None]
    /\ page' = [page EXCEPT ![t] = <<>>] /\ closest' = [closest EXCEPT ![t] = <<>>]
    /\ downloads' = [downloads EXCEPT ![t] = <<>>]

\* Without a term, or with an option that is no country, nothing is asked.
Refuse(t) ==
    /\ pc[t] = "idle"
    /\ replies' = [replies EXCEPT ![t] = {Refused}]
    /\ UNCHANGED <<accentDifferences, task>>

\* The command asks for the page.
Pronounce(t, request) ==
    /\ pc[t] = "idle"
    /\ pc' = [pc EXCEPT ![t] = "fetch"] /\ requested' = [requested EXCEPT ![t] = request]
    /\ replies' = [replies EXCEPT ![t] = {}]
    /\ UNCHANGED <<accentDifferences, page, closest, downloads>>

FetchFails(t) ==
    /\ pc[t] = "fetch" /\ "page" \in Lapses
    /\ replies' = [replies EXCEPT ![t] = {Fail}]
    /\ Done(t)
    /\ UNCHANGED accentDifferences

\* A request is for one language; without one both are looked at.
Wanted(request, language) ==
    /\ language # "other"
    /\ request # None => (language = "English") = (request \in English)

\* The containers of a page that are looked at.
Selected(containers, request) ==
    LET Select(kept, container) ==
            IF Wanted(request, container.language) THEN Append(kept, container) ELSE kept
    IN  FoldLeft(Select, <<>>, containers)

Fetched(t, containers) ==
    /\ pc[t] = "fetch"
    /\ pc' = [pc EXCEPT ![t] = "rank"]
    /\ page' = [page EXCEPT ![t] = Selected(containers, requested[t])]
    /\ UNCHANGED <<accentDifferences, requested, closest, downloads, replies>>

\* One container, with the mutex of the distances locked.
Rank(t) ==
    LET i == Len(closest[t]) + 1
        chosen == ClosestOf(page[t][i].entries, requested[t], page[t][i].language, accentDifferences)
    IN  /\ pc[t] = "rank" /\ i <= Len(page[t])
        /\ closest' = [closest EXCEPT ![t] = Append(@, chosen.at)]
        /\ accentDifferences' = chosen.cache
        /\ UNCHANGED <<pc, requested, page, downloads, replies>>

Chosen(t) == {i \in DOMAIN closest[t] : closest[t][i] # 0}

\* A recording of an unknown country is likely harmless.
Broken(t) == \E i \in DOMAIN page[t] : "broken" \in ToSet(page[t][i].entries)

\* All containers are ranked: what could not be read is reported, and the
\* downloads of what was chosen begin together.
Report(t) ==
    /\ pc[t] = "rank" /\ Len(closest[t]) = Len(page[t])
    /\ replies' = [replies EXCEPT ![t] = (IF Broken(t) THEN {Fail} ELSE {})
                                         \cup (IF Chosen(t) = {} THEN {NothingFound} ELSE {})]
    /\ \/ Chosen(t) = {} /\ Done(t)
       \/ /\ Chosen(t) # {}
          /\ pc' = [pc EXCEPT ![t] = "download"]
          /\ downloads' = [downloads EXCEPT ![t] = [i \in Chosen(t) |-> "asked"]]
          /\ UNCHANGED <<requested, page, closest>>
    /\ UNCHANGED accentDifferences

Downloaded(t, i, outcome) ==
    /\ pc[t] = "download" /\ downloads[t][i] = "asked"
    /\ outcome = "failed" => "download" \in Lapses
    /\ downloads' = [downloads EXCEPT ![t][i] = outcome]
    /\ UNCHANGED <<accentDifferences, pc, requested, page, closest, replies>>

DownloadsWith(t, outcome) == {i \in DOMAIN downloads[t] : downloads[t][i] = outcome}

\* Mutant: the first failure ends the command.
AnswerUnlessFailed(t) ==
    /\ pc[t] = "download" /\ DownloadsWith(t, "asked") = {}
    /\ replies' = [replies EXCEPT ![t] =
                      IF DownloadsWith(t, "failed") # {} THEN @ \cup {Fail}
                      ELSE @ \cup {Recording(i, closest[t][i]) : i \in DownloadsWith(t, "loaded")}]
    /\ Done(t)
    /\ UNCHANGED accentDifferences

\* All downloads have ended: the ones that failed are reported, the others are
\* sent, in any order.
Answer(t) ==
    /\ pc[t] = "download" /\ DownloadsWith(t, "asked") = {}
    /\ replies' = [replies EXCEPT ![t] =
                      @ \cup (IF DownloadsWith(t, "failed") # {} THEN {Fail} ELSE {})
                        \cup {Recording(i, closest[t][i]) : i \in DownloadsWith(t, "loaded")}]
    /\ Done(t)
    /\ UNCHANGED accentDifferences

Step(t) ==
    \/ \E request \in Requests : Pronounce(t, request)
    \/ Refuse(t) \/ FetchFails(t)
    \/ \E containers \in Pages : Fetched(t, containers)
    \/ Rank(t) \/ Report(t)
    \/ \E i \in DOMAIN downloads[t], outcome \in {"loaded", "failed"} : Downloaded(t, i, outcome)
    \/ Answer(t)

Next == \E t \in Slots : Step(t)

Spec == Init /\ [][Next]_vars
-----------------------------------------------------------------------------
(***************************************************************************)
(* Properties.                                                             *)
(***************************************************************************)

\* Whatever commands filled the cache, a row of it is whole and has the lengths of
\* the shortest ways: no edge shortens one, and one leads to every country.  The
\* lengths fit a u32, though nothing checks the sums, and are below u32::MAX, which
\* means that there is no way.
CacheIsRight ==
    \A base \in {pair[1] : pair \in DOMAIN accentDifferences} :
        /\ {base} \X Countries \subseteq DOMAIN accentDifferences
        /\ LET dist(c) == accentDifferences[<<base, c>>]
           IN  /\ dist(base) = 0
               /\ \A c \in Countries \ {base} :
                     /\ \A way \in From(c) : dist(c) <= dist(way[1]) + way[2]
                     /\ \E way \in From(c) : dist(c) = dist(way[1]) + way[2]
                     /\ dist(c) < U32Max

Ends(t) == pc[t] # "idle" /\ pc'[t] = "idle"

\* The recordings of a container that could be read.
Readable(container) == {k \in DOMAIN container.entries : container.entries[k] \in Countries}

\* The first of the recordings nearest to the request, of all in the container.
IsNearest(k, container, request) ==
    LET dist(j) == Distances[Base(request, container.language)][container.entries[j]]
    IN  /\ k \in Readable(container)
        /\ \A j \in Readable(container) : dist(k) < dist(j) \/ (dist(k) = dist(j) /\ k <= j)

\* Whatever other commands cached in between and wherever errors stand among the
\* recordings, what is sent is the first of the closest recordings of its
\* container.  A recording by somebody whose country speaks the other language is
\* sent only if there is no other, wherever the request is from.
NearestIsSent ==
    [][\A t \in Slots : Ends(t) =>
        \A reply \in replies'[t] \ {Fail, NothingFound} :
            LET container == page[t][reply[2]]
                natives == IF container.language = "English" THEN English ELSE Spanish
            IN  /\ IsNearest(reply[3], container, requested[t])
                /\ \/ container.entries[reply[3]] \in natives
                   \/ ToSet(container.entries) \cap natives = {}]_vars

\* Every command is answered, and rightly: each container with a readable recording
\* gives one or, if its own download failed, a report; that nothing was found is
\* said exactly when nothing could be read; and there is no report without an
\* error.
AnsweredRight ==
    [][\A t \in Slots : Ends(t) /\ pc[t] # "fetch" =>
        LET found == {i \in DOMAIN page[t] : Readable(page[t][i]) # {}}
            failed == {i \in DOMAIN downloads[t] : downloads[t][i] = "failed"}
        IN  /\ \A i \in found \ failed : \E k \in Readable(page[t][i]) : Recording(i, k) \in replies'[t]
            /\ (NothingFound \in replies'[t]) <=> (found = {})
            /\ (Fail \in replies'[t]) <=> (failed # {} \/ Broken(t))]_vars
=============================================================================
