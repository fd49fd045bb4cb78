--------------------------- MODULE CatalogIngest ---------------------------
(***************************************************************************)
(* The loaders that fill the catalogue from the curated slice and from the *)
(* upstream sources.  Each is one transaction: an operator from a database *)
(* to the database its commit leaves.  A slice is [year, title, qid]: the  *)
(* year and title of each version and the versions with a Wikidata         *)
(* identifier.  A feed is what the stored snapshots say:                   *)
(*   years     QID-ed version -> publication years (P577)                  *)
(*   claims    records [prop, item, target] over version and work keys     *)
(*   tmdbIds, imdbIds  the versions whose entity states these identifiers  *)
(*   movies    version -> [year, language, leads] of its TMDB payload      *)
(***************************************************************************)
EXTENDS CatalogTables, Sequences

CONSTANTS WorkQid   \* works with an identifier of their own (literary sources)

----------------------------------------------------------------------------
(* Field precedence (precedence.py).  An observation is [value, source].   *)

Strategy == [external_id |-> "hub", canonical_title |-> "primary_corroborate",
             release_year |-> "majority", original_language |-> "primary_corroborate"]

Agree(obs) == \A i, j \in DOMAIN obs : obs[i].value = obs[j].value

Votes(obs, value) == Cardinality({i \in DOMAIN obs : obs[i].value = value})

\* resolve_field: hub and primary rules always decide, and record that they
\* overruled somebody; the majority rule leaves a split to a human.
ResolveField(field, obs) ==
    IF Agree(obs) THEN "none"
    ELSE IF Strategy[field] # "majority" THEN "resolved"
    ELSE IF \E i \in DOMAIN obs : 2 * Votes(obs, obs[i].value) > Len(obs) THEN "resolved"
    ELSE "open"

----------------------------------------------------------------------------
(* The Wikidata spine (wikidata.py).                                       *)

Anchored(slice, w) == w \in WorkQid \/ \E v \in Originals \cap slice.qid : WorkOf[v] = w

SliceSources(qid) == {"seed"} \cup (IF qid THEN {"wikidata"} ELSE {})

UpsertWork(db, slice, w) ==
    LET anchor == Anchored(slice, w)
    IN  IF w \in Rows(db.works)
        THEN [db.works[w] EXCEPT !.qid = anchor,
                                 !.sources = MergeSources(@, SliceSources(anchor))]
        ELSE [qid |-> anchor, conf |-> IF anchor THEN "HIGH" ELSE "MEDIUM",
              sources |-> SliceSources(anchor)]

\* The rows a seed version matches: by identifier, else by work, language and year.
ByQid(db, slice, v) ==
    {r \in Rows(db.versions) : v \in slice.qid /\ r[1] = v /\ db.versions[r].qid}

ByYear(db, slice, v) ==
    {r \in Rows(db.versions) : /\ WorkOf[r[1]] = WorkOf[v] /\ Language[r[1]] = Language[v]
                               /\ db.versions[r].year = slice.year[v]}

Target(db, slice, v) ==
    LET known == ByQid(db, slice, v)
        same  == ByYear(db, slice, v)
    IN  IF known # {} THEN CHOOSE r \in known : TRUE
        ELSE IF same # {} THEN CHOOSE r \in same : TRUE
        ELSE <<v, slice.year[v]>>

\* The runs that are modelled: no two entries match one row, and an entry that matches
\* none is not named after a row that has moved to another year.  Elsewhere what a later
\* entry matches depends on the order of the entries and on which of them are flushed.
EachItsOwnRow(db, slice) ==
    LET target == [v \in SeedVersions |-> Target(db, slice, v)]
    IN  \A v \in SeedVersions :
          /\ \A u \in SeedVersions :
                \/ target[v] = target[u]
                \/ /\ WorkOf[v] = WorkOf[u] /\ Language[v] = Language[u]
                   /\ slice.year[v] = slice.year[u]
                => v = u
          /\ ByQid(db, slice, v) \cup ByYear(db, slice, v) = {} =>
                <<v, slice.year[v]>> \notin Rows(db.versions)

HasEntity(slice, feed, v) == v \in slice.qid /\ v \in DOMAIN feed.years

\* A new row takes the slice's word.  A row a human verified keeps its curated columns
\* and only has gaps filled; any other is overwritten, its own identifier excepted.
\* Mutant: the slice overwrites whatever is stored.
UpsertVersionForced(db, slice, feed, v) ==
    LET r    == Target(db, slice, v)
        high == v \in slice.qid
    IN  [title |-> slice.title[v], year |-> slice.year[v], qid |-> high, tmdb |-> FALSE, imdb |-> FALSE,
         original |-> v \in Originals, conf |-> IF high THEN "HIGH" ELSE "MEDIUM",
         verified |-> r \in Rows(db.versions) /\ db.versions[r].verified,
         sources |-> SliceSources(high) \cup (IF r \in Rows(db.versions) THEN db.versions[r].sources ELSE {})]

\* Mutant: no stored row is corrected, only its provenance grows.
UpsertVersionOnce(db, slice, feed, v) ==
    LET r    == Target(db, slice, v)
        high == v \in slice.qid
    IN  IF r \in Rows(db.versions)
        THEN [db.versions[r] EXCEPT !.sources = MergeSources(@, SliceSources(high))]
        ELSE [title |-> slice.title[v], year |-> slice.year[v], qid |-> high, tmdb |-> FALSE,
              imdb |-> FALSE, original |-> v \in Originals,
              conf |-> IF high THEN "HIGH" ELSE "MEDIUM", verified |-> FALSE,
              sources |-> SliceSources(high)]

UpsertVersion(db, slice, feed, v) ==
    LET r      == Target(db, slice, v)
        known  == HasEntity(slice, feed, v)
        tmdb   == known /\ v \in feed.tmdbIds
        imdb   == known /\ v \in feed.imdbIds
        high   == v \in slice.qid
        source == SliceSources(high)
    IN  IF r \notin Rows(db.versions)
        THEN [title |-> slice.title[v], year |-> slice.year[v], qid |-> high, tmdb |-> tmdb,
              imdb |-> imdb, original |-> v \in Originals,
              conf |-> IF high THEN "HIGH" ELSE "MEDIUM", verified |-> FALSE, sources |-> source]
        ELSE LET row == [db.versions[r] EXCEPT !.sources = MergeSources(@, source)]
             IN  IF row.verified
                 THEN [row EXCEPT !.tmdb = @ \/ tmdb, !.imdb = @ \/ imdb]
                 ELSE [row EXCEPT !.tmdb = IF known THEN tmdb ELSE @,
                                  !.imdb = IF known THEN imdb ELSE @,
                                  !.title = slice.title[v], !.year = slice.year[v],
                                  !.original = v \in Originals,
                                  !.conf = IF high THEN "HIGH" ELSE @]

YearContested(slice, feed, v) ==
    /\ HasEntity(slice, feed, v)
    /\ feed.years[v] # {}
    /\ slice.year[v] \notin feed.years[v]

\* Mutant: every run records its conflicts anew.
SpineConflictsAgain(db, slice, feed) ==
    {NewConflict(db, Target(db, slice, v), "release_year", "open") :
        v \in {u \in SeedVersions : YearContested(slice, feed, u)}}

SpineConflicts(db, slice, feed) ==
    {NewConflict(db, Target(db, slice, v), "release_year", "open") :
        v \in {u \in SeedVersions : /\ YearContested(slice, feed, u)
                                    /\ ~ OpenConflict(db, Target(db, slice, u), "release_year")}}

\* The edge a claim asserts when both its ends are in the slice: P144 (based on) and
\* P4969 (derivative work) give remakes of versions or adaptations of literary works,
\* P155 (follows) and P156 (followed by) order the works of two films.
ClaimEdge(db, slice, c) ==
    LET derived == IF c.prop \in {"P144", "P155"} THEN c.item ELSE c.target
        base    == IF c.prop \in {"P144", "P155"} THEN c.target ELSE c.item
    IN  IF derived \notin slice.qid THEN Null
        ELSE IF c.prop \in {"P155", "P156"}
        THEN IF base \in slice.qid /\ WorkOf[derived] # WorkOf[base]
             THEN <<"is_sequel_of", WorkOf[derived], WorkOf[base]>> ELSE Null
        ELSE IF base \in slice.qid
        THEN <<"is_remake_of", Target(db, slice, derived), Target(db, slice, base)>>
        ELSE IF base \in WorkQid /\ WorkOf[derived] # base
        THEN <<"based_on", WorkOf[derived], base>> ELSE Null

\* _write_edge: an edge that exists, or was written in this pass, is left alone.
\* Mutant: an edge that exists is written again.
AssertedEdgesAgain(db, slice, feed) ==
    {ClaimEdge(db, slice, c) : c \in feed.claims} \ {Null}

AssertedEdges(db, slice, feed) ==
    {ClaimEdge(db, slice, c) : c \in feed.claims} \ (Rows(db.edges) \cup {Null})

IngestSpine(db, slice, feed) ==
    LET target == [v \in SeedVersions |-> Target(db, slice, v)]
        targets == {target[v] : v \in SeedVersions}
        entry(r) == CHOOSE v \in SeedVersions : target[v] = r
    IN  [db EXCEPT
          !.works     = Upsert(@, [w \in WorkKeys |-> UpsertWork(db, slice, w)]),
          !.versions  = Upsert(@, [r \in targets |-> UpsertVersion(db, slice, feed, entry(r))]),
          !.conflicts = @ \cup SpineConflicts(db, slice, feed),
          !.edges     = Upsert(@, [e \in AssertedEdges(db, slice, feed) |->
                                     [conf |-> "HIGH", verified |-> FALSE, sources |-> {"wikidata"}]])]

----------------------------------------------------------------------------
(* Titles (titles.py, tmdb.py, imdb.py, rekey_titles.py).                  *)

\* upsert_version_title: a title row is inserted once; a second source is merged into it.
UpsertTitles(titles, stated) == titles \cup stated

Siblings(db, r) == {s \in Rows(db.versions) : WorkOf[s[1]] = WorkOf[r[1]] /\ s # r}

TitleKind(db, s) == IF db.versions[s].original THEN "canonical" ELSE "dub"

\* The payload's own title is canonical; its translation into the language of a sibling
\* TMDB does not know becomes that sibling's title.  `last` is the sibling the language
\* index kept when two have the same language.
MovieTitles(db, r, last) ==
    {<<r, Title[r[1]], "canonical">>} \cup
    {<<s, Title[s[1]], TitleKind(db, s)>> :
        s \in {u \in Siblings(db, r) : ~ db.versions[u].tmdb /\ u \in last}}

\* Which sibling a dict keyed by language keeps: one row per work and language.
LanguageIndexes(db) ==
    {last \in SUBSET Rows(db.versions) :
        /\ \A r \in Rows(db.versions) : \E s \in last : s[1] = r[1]
        /\ \A s, u \in last : s[1] = u[1] => s = u}

Enriched(db, feed) == {r \in Rows(db.versions) : db.versions[r].tmdb /\ r[1] \in DOMAIN feed.movies}

\* Mutant: only an open conflict stops a second one.
MovieConflictAgain(db, feed, r, field) ==
    LET obs == <<[value |-> db.versions[r].year], [value |-> feed.movies[r[1]].year]>>
    IN  IF field # "release_year" \/ Agree(obs) \/ OpenConflict(db, r, field) THEN {}
        ELSE {NewConflict(db, r, field, "resolved")}

MovieConflict(db, feed, r, field) ==
    LET row   == db.versions[r]
        movie == feed.movies[r[1]]
        obs   == IF field = "release_year"
                 THEN <<[value |-> row.year], [value |-> movie.year]>>
                 ELSE <<[value |-> Language[r[1]]], [value |-> movie.language]>>
        status == ResolveField(field, obs)
    IN  IF \/ status = "none" \/ AnyConflict(db, r, field)
           \/ (field = "original_language" /\ ~ row.original)
        THEN {} ELSE {NewConflict(db, r, field, status)}

\* Credits add people to a version's cast; nobody is taken out of it.
EnrichTmdb(db, feed, last) ==
    LET rows == Enriched(db, feed)
    IN  [db EXCEPT
          !.versions  = Upsert(@, [r \in rows |-> [@[r] EXCEPT !.imdb = TRUE]]),
          !.conflicts = @ \cup UNION {MovieConflict(db, feed, r, f) :
                                        r \in rows, f \in {"release_year", "original_language"}},
          !.titles    = UpsertTitles(@, UNION {MovieTitles(db, r, last) : r \in rows}),
          !.cast      = Upsert(@, [r \in rows |-> Leads(db, r) \cup feed.movies[r[1]].leads])]

\* load_akas: the dump's rows for a version are its original title and one title per
\* language; a language that is a sibling's, when IMDb does not know the sibling, is
\* that sibling's title.
AkaTitles(db, r, last) ==
    {<<r, Title[r[1]], "canonical">>} \cup
    {IF db.versions[s].imdb THEN <<r, Title[s[1]], "aka">>
     ELSE <<s, Title[s[1]], TitleKind(db, s)>> : s \in {u \in Siblings(db, r) : u \in last}}

LoadAkas(db, last) ==
    LET rows == {r \in Rows(db.versions) : db.versions[r].imdb}
    IN  [db EXCEPT !.titles = UpsertTitles(@, UNION {AkaTitles(db, r, last) : r \in rows})]

RekeyTitles(db) ==
    [db EXCEPT !.titles = UpsertTitles(@,
        {<<r, db.versions[r].title, "canonical">> : r \in Rows(db.versions)})]

============================================================================
