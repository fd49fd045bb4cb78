----------------------------- MODULE MCCatalog -----------------------------
(***************************************************************************)
(* A franchise small enough to exhaust: a film from a novel, its original, *)
(* a remake, a dub track without identifier, and a sequel.  The curator    *)
(* may correct the track's year or find its identifier; Wikidata may       *)
(* publish another year for the original and assert the claims late.       *)
(***************************************************************************)
EXTENDS Catalog, TLC

CONSTANTS film, sequel, novel, original, remake, track, second

MCSeedVersions == {original, remake, track, second}
MCWorkOf == [v \in MCSeedVersions |-> IF v = second THEN sequel ELSE film]
MCLanguage == (original :> "ml") @@ (remake :> "hi") @@ (track :> "ta") @@ (second :> "ml")
MCWorkTitle == [w \in WorkKeys |-> IF w = sequel THEN "Two" ELSE "One"]
MCWorkYear == (novel :> 1) @@ (film :> 2) @@ (sequel :> 3)
MCCountry == [v \in MCSeedVersions |-> "indian"]
MCTitle == [v \in MCSeedVersions |-> IF v = second THEN "Two" ELSE "One"]

MCRelated == {<<"is_remake_of", remake, original>>, <<"is_official_dub_of", track, original>>,
              <<"is_sequel_of", sequel, film>>, <<"based_on", film, novel>>}

\* A sound slice, one whose dub track has a wrong year, and one whose track has another
\* title and no identifier yet: the curator corrects the last two.
Corrected == [year |-> (original :> 2) @@ (remake :> 3) @@ (track :> 3) @@ (second :> 3),
              title |-> MCTitle, qid |-> {original, remake, second}]
Misdated == [Corrected EXCEPT !.year[track] = 2]
Unidentified == [Corrected EXCEPT !.title[track] = "Two"]
Identified == [Corrected EXCEPT !.qid = @ \cup {track}]
MCSlices == {Corrected, Misdated, Unidentified, Identified}
MCSliceEdits == {<<Misdated, Corrected>>, <<Unidentified, Identified>>}

Claim(prop, item, target) == [prop |-> prop, item |-> item, target |-> target]
Movie(year, language, leads) == [year |-> year, language |-> language, leads |-> leads]

\* Wikidata says little at first; later it asserts the relationships, publishes another
\* year for the original, and TMDB bills other leads of the remake.
Sparse ==
    [years |-> (original :> {2}) @@ (remake :> {3}) @@ (track :> {}) @@ (second :> {3}),
     claims |-> {Claim("P4969", novel, original)},
     tmdbIds |-> {original, remake}, imdbIds |-> {original},
     movies |-> (original :> Movie(2, "ml", {"a", "b"})) @@ (remake :> Movie(3, "hi", {"c", "d"}))]
Full ==
    [Sparse EXCEPT !.claims = @ \cup {Claim("P144", remake, original), Claim("P4969", original, remake),
                                      Claim("P156", original, second)},
                   !.years[original] = {3}, !.movies[remake].leads = {"b", "c"}]
\* Everything is asserted from the start and nothing contested.
Calm == [Full EXCEPT !.years = Sparse.years, !.tmdbIds = {original}]
\* The track's entity names a TMDB film with other leads, and then no longer does.
TrackBilled == [Sparse EXCEPT !.tmdbIds = {original, track}, !.claims = {},
                              !.movies = @ @@ (track :> Movie(3, "ta", {"e"}))]
TrackForgotten == [TrackBilled EXCEPT !.tmdbIds = {original}]
MCFeeds == {Sparse, Full, Calm, TrackBilled, TrackForgotten}
MCFeedMoves == {<<Sparse, Full>>, <<TrackBilled, TrackForgotten>>}

Proposal(type, src, dst, page, supported) ==
    [type |-> type, src |-> src, dst |-> dst, page |-> page, supported |-> supported]
RemakePage == {Proposal("is_remake_of", <<"One", "hi">>, <<"One", "ml">>, "first", TRUE),
               Proposal("is_official_dub_of", <<"One", "hi">>, <<"One", "ml">>, "first", FALSE)}
TwoPages == {Proposal("is_remake_of", <<"One", "hi">>, <<"One", AnyLanguage>>, page, TRUE) :
               page \in {"first", "second"}}
SequelPage == {Proposal("is_sequel_of", <<"Two", AnyLanguage>>, <<"One", "ml">>, "second", TRUE)}
NovelPage == {Proposal("based_on", <<"One", "ml">>, <<"One", AnyLanguage>>, "first", TRUE)}
MCArtifacts == {{}, RemakePage, TwoPages \cup NovelPage, SequelPage}
\* Film and novel have the same title: a year tells which is meant.
MCEnds == {<<"One", Work, AnyYear>>, <<"One", Work, 1>>}

MCStarts == {<<Corrected, Sparse, RemakePage>>, <<Corrected, Calm, TwoPages \cup NovelPage>>,
             <<Misdated, Calm, {}>>, <<Unidentified, TrackBilled, SequelPage>>}
=============================================================================
