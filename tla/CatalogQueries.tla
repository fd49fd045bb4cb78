-------------------------- MODULE CatalogQueries ---------------------------
(***************************************************************************)
(* What the chat tools and the coverage report read (repository.py,        *)
(* report.py).  All of it goes through the ground-truth views.  Where the  *)
(* answer of the code depends on the order PostgreSQL returns rows in, the *)
(* operator is the set of answers it can give.                             *)
(***************************************************************************)
EXTENDS CatalogReview

NoLabel == "none"

EdgeLabels(db, r) == {e[1] : e \in {x \in TruthEdges(db) : x[1] \in VersionEdges /\ x[2] = r}}

\* _relationship_labels: a stored edge first, then the derived label of an original;
\* of several edges the last one read wins.
Labels(db, r, root) ==
    LET stored == EdgeLabels(db, r)
    IN  IF stored # {} THEN stored
        ELSE IF ~ db.versions[r].original THEN {NoLabel}
        ELSE IF WorkOf[r[1]] = root THEN {"is_original_of"} ELSE {"is_sequel_of"}

SequelEdges(db) == {e \in TruthEdges(db) : e[1] = "is_sequel_of"}

\* Mutant: the closure follows sequels only forwards.
WidenForwards(db, ws) ==
    ws \cup {e[3] : e \in {x \in SequelEdges(db) : x[2] \in ws}}

\* One round of the closure, and the closure: the frontier grows at most once per work.
Widen(db, ws) ==
    ws \cup UNION {{e[2], e[3]} : e \in {x \in SequelEdges(db) : {x[2], x[3]} \cap ws # {}}}

Rounds(db, w) ==
    LET reach[n \in 0 .. Cardinality(WorkKeys)] ==
            IF n = 0 THEN {w} ELSE Widen(db, reach[n - 1])
    IN  reach

FranchiseWorks(db, w) == Rounds(db, w)[Cardinality(WorkKeys)]

\* get_versions
VersionsOf(db, w, scope, sequels) ==
    {r \in TruthVersions(db) :
        /\ WorkOf[r[1]] \in IF sequels THEN FranchiseWorks(db, w) ELSE {w}
        /\ scope \in {"all", Country[r[1]]}}

\* The original of an answer: an identified one before any other.
OriginalOf(db, w, answer) ==
    LET originals == {r \in answer : db.versions[r].original /\ WorkOf[r[1]] = w}
        known     == {r \in originals : db.versions[r].qid}
    IN  IF known # {} THEN known ELSE IF originals # {} THEN originals ELSE {Null}

\* get_work: the literary source is the first based_on target that is visible.
BasedOn(db, w) == {e[3] : e \in {x \in TruthEdges(db) : x[1] = "based_on" /\ x[2] = w}}

SourceWorks(db, w) ==
    IF BasedOn(db, w) = {} THEN {Null}
    ELSE {IF b \in TruthWorks(db) THEN b ELSE Null : b \in BasedOn(db, w)}

Earliest(years) == CHOOSE y \in years : \A x \in years : y <= x

\* The work of the first row read is the root of the labels refine_filter compares with:
\* the rows come in no order, so it may be the work of any that is still visible.
Roots(db, set) == {WorkOf[r[1]] : r \in set \cap TruthVersions(db)}

Everything == [language |-> AnyLanguage, relationship |-> AnyLanguage, era |-> "any"]

\* refine_filter over a set of rows a client kept from an earlier answer.
\* Era is relative to the first original in the set, or to its first version.
Refined(db, set, by, root) ==
    LET rows  == set \cap TruthVersions(db)
        years(rs) == {db.versions[r].year : r \in rs}
        originals == {r \in rows : db.versions[r].original}
        pivot == IF originals # {} THEN Earliest(years(originals)) ELSE Earliest(years(rows))
        inEra(r) == CASE by.era = "original" -> db.versions[r].original
                      [] by.era = "newer"    -> db.versions[r].year > pivot
                      [] by.era = "older"    -> db.versions[r].year < pivot
                      [] OTHER               -> TRUE
    IN  {r \in rows : /\ by.language \in {AnyLanguage, Language[r[1]]}
                      /\ by.relationship \in {AnyLanguage} \cup Labels(db, r, root)
                      /\ inEra(r)}

----------------------------------------------------------------------------
(* The coverage report: seed entries with a visible row of their title,    *)
(* language and year, and the lift of extraction by provenance.            *)

Covered(db, slice) ==
    {v \in SeedVersions : \E r \in TruthVersions(db) :
        /\ db.versions[r].title = slice.title[v]
        /\ Language[r[1]] = Language[v]
        /\ db.versions[r].year = slice.year[v]}

\* The relationships of the slice the report counts as present: version edges are matched
\* by the titles and languages of visible ends, lineage by the works.
CoveredEdges(db, slice) ==
    {e \in Related :
        IF e[1] \in WorkEdges THEN e \in TruthEdges(db) /\ {e[2], e[3]} \subseteq TruthWorks(db)
        ELSE \E x \in TruthEdges(db) :
               /\ x[1] = e[1]
               /\ \A i \in {2, 3} : /\ x[i] \in TruthVersions(db)
                                   /\ db.versions[x[i]].title = slice.title[e[i]]
                                   /\ Language[x[i][1]] = Language[e[i]]}

BeyondWikidata(db) ==
    {e \in TruthEdges(db) : "wikipedia" \in db.edges[e].sources /\ "wikidata" \notin db.edges[e].sources}

Corroborated(db) == {e \in TruthEdges(db) : {"wikipedia", "wikidata"} \subseteq db.edges[e].sources}

Decided(db) == {k \in Rows(db.candidates) : db.candidates[k].status \in {"confirmed", "rejected"}}
============================================================================
