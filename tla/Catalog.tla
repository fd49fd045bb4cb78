------------------------------ MODULE Catalog ------------------------------
(***************************************************************************)
(* The life of the catalogue: a curator edits the slice, upstream sources  *)
(* change, the operator re-runs the loaders, the rule builder and the      *)
(* extraction in any order, and reviewers decide.  Every command is one    *)
(* transaction that commits at its end, so a crash leaves no half of it;   *)
(* a result PostgreSQL refuses leaves the database as it was.              *)
(***************************************************************************)
EXTENDS CatalogQueries

CONSTANTS
    Slices,        \* the slices a curator may commit
    SliceEdits,    \* pairs of slices: the edits
    Feeds,         \* the snapshots upstream may give
    FeedMoves,     \* pairs of feeds: what a new fetch may find
    Artifacts,     \* the recorded extractions: sets of proposals
    Starts,        \* <<slice, feed, artifact>>: what a catalogue may begin with
    Ends,          \* the endpoints a reviewer may spell out
    MaxConflicts   \* conflicts per version and field: bounds how often one is settled

VARIABLES slice, feed, artifact, db

vars == <<slice, feed, artifact, db>>

ASSUME CatalogRunAssumption ==
    /\ Slices \subseteq Slice
    /\ SliceEdits \subseteq Slices \X Slices
    /\ FeedMoves \subseteq Feeds \X Feeds
    /\ Starts \subseteq Slices \X Feeds \X Artifacts
    /\ MaxConflicts \in Nat

TypeOK ==
    /\ slice \in Slices
    /\ feed \in Feeds
    /\ artifact \in Artifacts
    /\ TablesTypeOK(db)
    /\ IntegrityOK(db)

Init ==
    /\ \E start \in Starts : slice = start[1] /\ feed = start[2] /\ artifact = start[3]
    /\ db = EmptyDb

\* Mutant: the checks of the constraints are not deferred to PostgreSQL but missing.
CommitUnchecked(new) == db' = new /\ UNCHANGED <<slice, feed, artifact>>

Commit(new) ==
    /\ db' = IF IntegrityOK(new) THEN new ELSE db
    /\ UNCHANGED <<slice, feed, artifact>>

EditSlice == \E e \in SliceEdits : e[1] = slice /\ slice' = e[2] /\ UNCHANGED <<feed, artifact, db>>

FetchSnapshots == \E m \in FeedMoves : m[1] = feed /\ feed' = m[2] /\ UNCHANGED <<slice, artifact, db>>

RunIngestSpine == EachItsOwnRow(db, slice) /\ Commit(IngestSpine(db, slice, feed))

RunEnrichTmdb == \E last \in LanguageIndexes(db) : Commit(EnrichTmdb(db, feed, last))

RunLoadAkas == \E last \in LanguageIndexes(db) : Commit(LoadAkas(db, last))

RunRekeyTitles == Commit(RekeyTitles(db))

RunBuildGraph == Commit(BuildGraph(db))

ProposedEnds == {p.src : p \in artifact} \cup {p.dst : p \in artifact}

\* What the title search may return for the proposed ends.
TitleBindings(d) ==
    LET found == [end \in ProposedEnds |-> Bindings(d, end)]
    IN  {bound \in [ProposedEnds -> UNION {found[end] : end \in ProposedEnds}] :
            \A end \in ProposedEnds : bound[end] \in found[end]}

RunExtraction ==
    \E bound \in TitleBindings(db) : Commit(LoadCandidates(db, artifact, bound))

\* apply_decisions and the interactive loop: a binding error leaves the candidate.
Confirm ==
    \E k \in Proposed(db), src, dst \in {Stored} \cup Ends :
        LET e == BoundEdge(db, k, src, dst)
        IN  Binds(e) /\ Commit(Promote(db, k, e))

Dismiss == \E k \in Proposed(db) : Commit(Reject(db, k))

VerifyEdges == \E e \in MediumRuleEdges(db) : Commit(VerifyMediumEdges(db, {e}))

VerifyVersions == \E r \in MediumVersions(db) : Commit(VerifyMediumVersions(db, {r}))

Settle ==
    \E c \in Resolvable(db), y \in Years :
        /\ c.nth < MaxConflicts
        /\ c.field = "release_year" => (y = slice.year[c.about[1]] \/ y \in feed.years[c.about[1]])
        /\ Commit(ResolveConflict(db, c, y))

Next ==
    \/ EditSlice \/ FetchSnapshots
    \/ RunIngestSpine \/ RunEnrichTmdb \/ RunLoadAkas \/ RunRekeyTitles
    \/ RunBuildGraph \/ RunExtraction
    \/ Confirm \/ Dismiss \/ VerifyEdges \/ VerifyVersions \/ Settle

Spec == Init /\ [][Next]_vars

----------------------------------------------------------------------------

\* No relationship is served on a model's word alone: every edge is asserted by Wikidata,
\* or derived by the dub-track rule, or was confirmed by a reviewer from a candidate that
\* names it; and a confirmed candidate's edge is there, verified and HIGH, whatever the
\* loaders did before and after (review.py promote, wikidata.py _write_edge, build.py).
EvidenceBehindEdges ==
    LET confirmed == {db.candidates[k].edge :
                        k \in {x \in Rows(db.candidates) : db.candidates[x].status = "confirmed"}}
    IN  /\ \A e \in Rows(db.edges) :
              \/ "wikidata" \in db.edges[e].sources /\ db.edges[e].conf = "HIGH"
              \/ "rule" \in db.edges[e].sources /\ e[1] = "is_official_dub_of"
              \/ e \in confirmed
        /\ confirmed \subseteq {e \in Rows(db.edges) :
                                  /\ db.edges[e].verified
                                  /\ db.edges[e].conf = "HIGH"
                                  /\ {"human", "wikipedia"} \subseteq db.edges[e].sources}

\* At most one conflict of a version's field or of an edge's type is open at a time,
\* although three loaders open them, each with a check of its own (wikidata.py
\* _open_conflict_exists, tmdb.py _record_conflict, build.py _open_edge_conflict_exists).
OneOpenConflict ==
    \A c, x \in db.conflicts :
        (c.about = x.about /\ c.field = x.field /\ (c.nth = x.nth \/ {c.status, x.status} = {"open"}))
          => c = x

\* Running a command twice is running it once, in every state the commands can reach
\* ("Idempotent" in the docstrings of ingest_spine, enrich_tmdb, build_graph and
\* load_candidates, "idempotent re-run" of load_akas and rekey_titles), the two runs
\* keeping the same one of two siblings of a language.  Two limits: an ingest is asked
\* only where no two entries of the slice match one row; and a second build_graph may
\* contest, once, the dub edges the first one derived for tracks whose cast is known,
\* as the first checks the edges it finds and not those it adds.
RerunsChangeNothing ==
    /\ LET once == IngestSpine(db, slice, feed)
       IN  (EachItsOwnRow(db, slice) /\ IntegrityOK(once)) => IngestSpine(once, slice, feed) = once
    /\ LET once  == BuildGraph(db)
           twice == BuildGraph(once)
           late  == twice.conflicts \ once.conflicts
       IN  /\ twice = [once EXCEPT !.conflicts = @ \cup late]
           /\ \A c \in late : c.about \in DerivedDubs(db) /\ Leads(db, c.about[2]) # {}
           /\ BuildGraph(twice) = twice
    /\ \A last \in LanguageIndexes(db) :
          LET enriched == EnrichTmdb(db, feed, last)
              loaded   == LoadAkas(db, last)
          IN  /\ EnrichTmdb(enriched, feed, last) = enriched
              /\ LoadAkas(loaded, last) = loaded
    /\ LET once == RekeyTitles(db) IN RekeyTitles(once) = once
    /\ LET found == TitleBindings(db)
       IN  \A bound, again \in found :
              LET once == LoadCandidates(db, artifact, bound)
              IN  LoadCandidates(once, artifact, again) = once

\* What the databases d and n, before and after a command, have in common: what was
\* decided about candidates, versions and edges, and every row.
CandidatesKept(d, n) ==
    \A k \in Rows(d.candidates) :
        /\ k \in Rows(n.candidates)
        /\ d.candidates[k].status # "proposed" => n.candidates[k] = d.candidates[k]

VersionsKept(d, n) ==
    \A r \in Rows(d.versions) :
        /\ r \in Rows(n.versions)
        /\ d.versions[r].sources \subseteq n.versions[r].sources
        /\ d.versions[r].conf = "HIGH" => n.versions[r].conf = "HIGH"
        /\ d.versions[r].verified =>
              /\ n.versions[r].verified
              /\ \A f \in {"title", "year", "original"} : n.versions[r][f] = d.versions[r][f]

EdgesKept(d, n) ==
    \A e \in Rows(d.edges) :
        /\ e \in Rows(n.edges)
        /\ d.edges[e].sources \subseteq n.edges[e].sources
        /\ d.edges[e].conf = "HIGH" => n.edges[e].conf = "HIGH"
        /\ d.edges[e].verified => n.edges[e].verified

ConflictsKept(d, n) ==
    \A c \in d.conflicts :
        c \in n.conflicts \/ (c.status = "open" /\ [c EXCEPT !.status = "resolved"] \in n.conflicts)

Kept(d, n) ==
    /\ CandidatesKept(d, n) /\ VersionsKept(d, n) /\ EdgesKept(d, n)
    /\ d.titles \subseteq n.titles /\ ConflictsKept(d, n)

\* What reviewers decided about rows and where facts came from survives every command: a
\* decided candidate never changes or returns, a verified version keeps its curated
\* columns, confidence and verification are never taken back, provenance only grows, no
\* row of any table disappears and a resolved conflict is never opened again (the
\* append-only rules of wikidata.py, models.py, review.py).  It does not say that a settled
\* year stays: see SettledStaysVisible.
CuratedKept == [][Kept(db, db')]_vars

\* Whenever an ingest is run and commits, every entry of the slice can then be found under
\* its title, language and year, except those whose year is contested and those a human
\* verified before the slice was corrected; and the report counts every relationship of
\* the slice whose edge is visible between works or between entries that can be found
\* (report.py compute_version_coverage and compute_edge_coverage, the exit gate of the
\* catalogue).
IngestCovers ==
    LET next    == IngestSpine(db, slice, feed)
        row(v)  == Target(next, slice, v)
        held(v) == OpenConflict(next, row(v), "release_year") \/ next.versions[row(v)].verified
    IN  (EachItsOwnRow(db, slice) /\ IntegrityOK(next)) =>
          /\ \A v \in SeedVersions \ Covered(next, slice) : held(v)
          /\ \A e \in Related \ CoveredEdges(next, slice) :
                IF e[1] \in WorkEdges THEN e \notin TruthEdges(next)
                ELSE <<e[1], row(e[2]), row(e[3])>> \in TruthEdges(next) => held(e[2]) \/ held(e[3])

\* A franchise is one franchise: every visible sequel edge stays inside it, and it is the
\* same whichever of its works is asked for (repository.py _franchise_work_ids).
OneFranchise ==
    \A w \in Rows(db.works) :
        /\ Widen(db, FranchiseWorks(db, w)) = FranchiseWorks(db, w)
        /\ \A u \in FranchiseWorks(db, w) : FranchiseWorks(db, u) = FranchiseWorks(db, w)

\* What an answer about a franchise said still holds after another command: it names at
\* least the same works, a literary source if it named one, and an original unless a
\* conflict hides it.  A client that kept its versions narrows them by a label it was shown
\* and finds the version again, unless a conflict hides it or its edge by then, it was
\* shown without an edge and has one now, or it is an original and the labels are read
\* from another root, as refine_filter takes the work of whichever version it reads first
\* (repository.py get_work, get_versions, refine_filter).
Contested(d, ids) == \E c \in d.conflicts : c.status = "open" /\ c.about \in ids

AnswerHolds(d, n, w) ==
    LET kept == VersionsOf(d, w, "all", TRUE)
    IN  /\ FranchiseWorks(d, w) \subseteq FranchiseWorks(n, w)
        /\ Null \notin SourceWorks(d, w) => Null \notin SourceWorks(n, w)
        /\ \A r \in OriginalOf(d, w, kept) \ {Null} :
              Null \notin OriginalOf(n, w, VersionsOf(n, w, "all", TRUE)) \/ Contested(n, {r})
        /\ \A r \in kept, root \in Roots(n, kept) : \A label \in Labels(d, r, w) :
              \/ r \in Refined(n, kept, [Everything EXCEPT !.relationship = label], root)
              \/ Contested(n, {r} \cup {<<label, r, u>> : u \in Rows(n.versions)})
              \/ /\ label \notin VersionEdges
                 /\ EdgeLabels(n, r) # {} \/ (d.versions[r].original /\ root # w)

AnswersStayTrue == [][db' # db => \A w \in Rows(db.works) : AnswerHolds(db, db', w)]_vars

----------------------------------------------------------------------------

\* "conflicted or provenance-less rows are invisible until resolved"
\* (data-pipeline/README.md): while neither the slice nor the sources say anything new,
\* a version whose year a human settled stays visible.
SettledStaysVisible ==
    [][ \A c \in db.conflicts :
          (/\ c.status = "resolved" /\ c.field = "release_year"
           /\ c.about \in TruthVersions(db)
           /\ slice' = slice /\ feed' = feed)
          => c.about \in TruthVersions(db') ]_vars
============================================================================
