--------------------------- MODULE CatalogReview ---------------------------
(***************************************************************************)
(* Relationships that no structured source asserts: the rule builder       *)
(* (build.py), the candidates a language model extracts from plot pages    *)
(* (extract.py), the human who decides about them (review.py) and about    *)
(* contested values (resolve_conflicts.py).  As in CatalogIngest every     *)
(* operator is one transaction.                                            *)
(***************************************************************************)
EXTENDS CatalogIngest

----------------------------------------------------------------------------
(* The rule builder.                                                       *)

Smaller(m, n) == IF m < n THEN m ELSE n

\* classify_dub_vs_remake: half of the smaller lead cast in common is a dub.
Classify(src, dst) ==
    IF src = {} \/ dst = {} THEN "unknown"
    ELSE IF 2 * Cardinality(src \cap dst) >= Smaller(Cardinality(src), Cardinality(dst))
    THEN "is_official_dub_of" ELSE "is_remake_of"

RuleAgrees(verdict, type) ==
    \/ verdict = "unknown"
    \/ verdict = type
    \/ verdict = "is_remake_of" /\ type = "is_unofficial_remake_of"

\* An edge the rule disagrees with is contested, never re-typed, and contested once.
RuleConflicts(db) ==
    {NewConflict(db, e, "edge_type", "open") :
        e \in {x \in Rows(db.edges) :
                 /\ x[1] \in VersionEdges
                 /\ ~ RuleAgrees(Classify(Leads(db, x[2]), Leads(db, x[3])), x[1])
                 /\ ~ AnyConflict(db, x, "edge_type")}}

Primaries(db, w) ==
    {r \in Rows(db.versions) : /\ WorkOf[r[1]] = w
                               /\ db.versions[r].original
                               /\ db.versions[r].qid}

DubTracks(db, w) ==
    {r \in Rows(db.versions) : /\ WorkOf[r[1]] = w
                               /\ ~ db.versions[r].qid
                               /\ ~ db.versions[r].tmdb
                               /\ ~ db.versions[r].original}

\* A track nobody else knows is taken for a dub of its work's first original.
DerivedDubs(db) ==
    {<<"is_official_dub_of", t, CHOOSE p \in Primaries(db, WorkOf[t[1]]) : TRUE>> :
        t \in UNION {DubTracks(db, w) : w \in {x \in WorkKeys : Primaries(db, x) # {}}}}
    \ Rows(db.edges)

\* Mutant: an edge the rule disagrees with is re-typed, not contested.
BuildGraphRetyping(db) ==
    LET wrong == {c.about : c \in RuleConflicts(db)}
        typed(e) == <<Classify(Leads(db, e[2]), Leads(db, e[3])), e[2], e[3]>>
    IN  [db EXCEPT !.edges = Upsert([e \in Rows(@) \ wrong |-> @[e]],
                                    [x \in {typed(e) : e \in wrong} |->
                                       [conf |-> "MEDIUM", verified |-> FALSE, sources |-> {"rule"}]])]

BuildGraph(db) ==
    [db EXCEPT
       !.conflicts = @ \cup RuleConflicts(db),
       !.edges = Upsert(@, [e \in DerivedDubs(db) |->
                              [conf |-> "MEDIUM", verified |-> FALSE, sources |-> {"rule"}]])]

----------------------------------------------------------------------------
(* Extraction.  A proposal is [type, src, dst, page, supported]: an end is  *)
(* <<title, language>>, the language may be AnyLanguage, and supported     *)
(* says whether the quoted sentence occurs in the page.                    *)

AnyLanguage == "any"

\* The best hits of resolve_title: visible versions with a title row of this text,
\* in the language asked for.
Hits(db, end) ==
    {r \in TruthVersions(db) : /\ end[2] \in {AnyLanguage, Language[r[1]]}
                               /\ \E t \in db.titles : t[1] = r /\ t[2] = end[1]}

\* _bind_version: hits in two works are ambiguous; among the versions of one work the
\* order of equal scores decides, so any of them may come first.
Bindings(db, end) ==
    IF Cardinality({WorkOf[r[1]] : r \in Hits(db, end)}) = 1 THEN Hits(db, end) ELSE {Null}

\* The deduplication key: the same titles on another page are another candidate.
CandidateKey(p) == <<p.type, p.src[1], p.dst[1], p.page>>

\* load_candidates over the parsed proposals of one recorded artifact: unsupported ones
\* and known ones, whatever became of them, are dropped; a binding to itself loses its
\* second end.  `bound` is the binding the title search returned for each end.
LoadCandidates(db, proposals, bound) ==
    LET fresh == {p \in proposals : p.supported /\ CandidateKey(p) \notin Rows(db.candidates)}
        row(p) == LET src == bound[p.src]
                      dst == bound[p.dst]
                  IN  [src |-> src, dst |-> IF dst = src THEN Null ELSE dst,
                       status |-> "proposed", edge |-> Null]
    IN  [db EXCEPT !.candidates =
            Upsert(@, [k \in {CandidateKey(p) : p \in fresh} |->
                         row(CHOOSE p \in fresh : CandidateKey(p) = k)])]

----------------------------------------------------------------------------
(* Review.  A reviewer's endpoint is Stored (keep the binding), or a       *)
(* <<title, language, year>> to look up; <<title, Work, year>> names a work. *)

Stored == <<"stored">>
Work == "work"
AnyYear == 0

\* find_version, find_work: exactly one match or nothing.
FindVersion(db, spec) ==
    LET hits == {r \in Rows(db.versions) : /\ db.versions[r].title = spec[1]
                                           /\ spec[2] \in {AnyLanguage, Language[r[1]]}
                                           /\ spec[3] \in {AnyYear, db.versions[r].year}}
    IN  IF Cardinality(hits) = 1 THEN CHOOSE r \in hits : TRUE ELSE Null

FindWork(db, spec) ==
    LET hits == {w \in Rows(db.works) : WorkTitle[w] = spec[1] /\ spec[3] \in {AnyYear, WorkYear[w]}}
    IN  IF Cardinality(hits) = 1 THEN CHOOSE w \in hits : TRUE ELSE Null

\* _bind_endpoint: the end of an edge of this type, or Null.
BindEndpoint(db, type, spec, stored) ==
    IF spec # Stored /\ spec[2] = Work THEN FindWork(db, spec)
    ELSE LET r == IF spec = Stored THEN stored ELSE FindVersion(db, spec)
         IN  IF r # Null /\ type \in WorkEdges THEN WorkOf[r[1]] ELSE r

Proposed(db) == {k \in Rows(db.candidates) : db.candidates[k].status = "proposed"}

BoundEdge(db, key, src, dst) ==
    <<key[1], BindEndpoint(db, key[1], src, db.candidates[key].src),
              BindEndpoint(db, key[1], dst, db.candidates[key].dst)>>

\* BindingError: an end cannot be bound, or both are the same.
Binds(e) == Null \notin {e[2], e[3]} /\ e[2] # e[3]

\* promote: corroborate the edge if it exists, create it otherwise; the candidate
\* remembers the edge.
Promote(db, key, e) ==
    LET refs == {"wikipedia", "human"}
        row  == IF e \in Rows(db.edges)
                THEN [db.edges[e] EXCEPT !.sources = MergeSources(@, refs)]
                ELSE [sources |-> refs]
    IN  [db EXCEPT
           !.edges = Upsert(@, [x \in {e} |->
                                  [conf |-> "HIGH", verified |-> TRUE, sources |-> row.sources]]),
           !.candidates[key].status = "confirmed",
           !.candidates[key].edge = e]

Reject(db, key) == [db EXCEPT !.candidates[key].status = "rejected"]

\* list_medium_rule_edges
MediumRuleEdges(db) ==
    {e \in Rows(db.edges) : /\ db.edges[e].conf = "MEDIUM"
                            /\ ~ db.edges[e].verified
                            /\ "rule" \in db.edges[e].sources}

MediumVersions(db) ==
    {r \in Rows(db.versions) : db.versions[r].conf = "MEDIUM" /\ ~ db.versions[r].verified}

VerifyRow(row) == [row EXCEPT !.verified = TRUE, !.sources = MergeSources(@, {"human"})]

\* Verifying a derived edge verifies its MEDIUM ends as well.
VerifyMediumEdges(db, chosen) ==
    LET edges == chosen \cap MediumRuleEdges(db)
        ends  == (UNION {{e[2], e[3]} : e \in edges}) \cap MediumVersions(db)
    IN  [db EXCEPT !.edges = Upsert(@, [e \in edges |-> VerifyRow(@[e])]),
                   !.versions = Upsert(@, [r \in ends |-> VerifyRow(@[r])])]

VerifyMediumVersions(db, chosen) ==
    [db EXCEPT !.versions = Upsert(@, [r \in chosen \cap MediumVersions(db) |-> VerifyRow(@[r])])]

\* resolve_conflicts.py: versions are found by their identifier, so only theirs can be
\* settled; the row stays, and a settled year is written to the version.
Resolvable(db) ==
    {c \in db.conflicts : /\ c.status = "open"
                          /\ c.about \in Rows(db.versions)
                          /\ db.versions[c.about].qid}

ResolveConflict(db, c, year) ==
    [db EXCEPT
       !.conflicts = (@ \ {c}) \cup {[c EXCEPT !.status = "resolved"]},
       !.versions = IF c.field = "release_year"
                    THEN [@ EXCEPT ![c.about].year = year] ELSE @]
============================================================================
