---------------------------- MODULE CatalogProofs ----------------------------
(***************************************************************************)
(* Whatever order the loaders, the rule builder, the extraction and the    *)
(* reviewers run in, and whatever the slice and the sources say by then:   *)
(* the catalogue keeps what humans decided, never serves a relationship    *)
(* without evidence, never opens a second conflict about one value, finds  *)
(* its own work when a loader is run again, and answers consistently.      *)
(*                                                                         *)
(* Every command is one transaction, so the proofs are about operators     *)
(* from a database d to a database n.  For each there is a lemma that says *)
(* what it may change; the invariants follow from these alone.  What an    *)
(* ingest leaves behind, and that a second run changes nothing, rests on   *)
(* SpineTargets: after the run every entry matches the row it wrote.       *)
(***************************************************************************)
EXTENDS Catalog, FiniteSetTheorems, WellFoundedInduction, TLAPS

\* A database is a record of these tables.
Shaped(d) ==
    d = [works |-> d.works, versions |-> d.versions, edges |-> d.edges,
         conflicts |-> d.conflicts, candidates |-> d.candidates,
         titles |-> d.titles, cast |-> d.cast]

\* An identified version is HIGH from the start, and only MEDIUM ones are put before
\* a reviewer: so no identified version is ever verified, and settling the year of
\* an identified version overwrites no reviewed value.
ReviewedApart(d) ==
    \A r \in Rows(d.versions) :
        /\ d.versions[r].qid => d.versions[r].conf = "HIGH"
        /\ d.versions[r].verified => ~ d.versions[r].qid

LEMMA Upserted ==
    ASSUME NEW t, NEW new, NEW u, u = Upsert(t, new)
    PROVE  /\ Rows(u) = Rows(t) \cup DOMAIN new
           /\ \A k \in DOMAIN new : u[k] = new[k]
           /\ \A k \in Rows(t) : k \notin DOMAIN new => u[k] = t[k]
  BY DEF Upsert, Rows

LEMMA Inserted ==
    ASSUME NEW t, NEW new, NEW u, u = Upsert(t, new), DOMAIN new \cap Rows(t) = {}
    PROVE  /\ Rows(t) \subseteq Rows(u)
           /\ \A k \in Rows(t) : u[k] = t[k]
           /\ \A k \in Rows(u) \ Rows(t) : k \in DOMAIN new /\ u[k] = new[k]
  BY Upserted

LEMMA Updated ==
    ASSUME NEW t, NEW new, NEW u, u = Upsert(t, new), DOMAIN new \subseteq Rows(t)
    PROVE  /\ Rows(u) = Rows(t)
           /\ \A k \in Rows(t) : u[k] = t[k] \/ (k \in DOMAIN new /\ u[k] = new[k])
  BY Upserted

----------------------------------------------------------------------------
(* What each transaction may change.                                       *)

LEMMA SpineChanges ==
    ASSUME NEW d, NEW sl, NEW fd, Shaped(d), NEW n, n = IngestSpine(d, sl, fd)
    PROVE  /\ Shaped(n)
           /\ n.candidates = d.candidates /\ n.titles = d.titles /\ n.cast = d.cast
           /\ n.conflicts = d.conflicts \cup SpineConflicts(d, sl, fd)
           /\ Rows(n.works) = Rows(d.works) \cup WorkKeys
           /\ \A w \in WorkKeys : n.works[w] = UpsertWork(d, sl, w)
           /\ Rows(d.versions) \subseteq Rows(n.versions)
           /\ \A r \in Rows(n.versions) :
                 \/ r \in Rows(d.versions) /\ n.versions[r] = d.versions[r]
                 \/ \E v \in SeedVersions :
                       r = Target(d, sl, v) /\ n.versions[r] = UpsertVersion(d, sl, fd, v)
           /\ Rows(d.edges) \subseteq Rows(n.edges)
           /\ \A e \in Rows(d.edges) : n.edges[e] = d.edges[e]
           /\ \A e \in Rows(n.edges) \ Rows(d.edges) :
                 n.edges[e] = [conf |-> "HIGH", verified |-> FALSE, sources |-> {"wikidata"}]
  <1> DEFINE target == [v \in SeedVersions |-> Target(d, sl, v)]
             targets == {target[v] : v \in SeedVersions}
             entry(r) == CHOOSE v \in SeedVersions : target[v] = r
             works == [w \in WorkKeys |-> UpsertWork(d, sl, w)]
             rows == [r \in targets |-> UpsertVersion(d, sl, fd, entry(r))]
             edges == [e \in AssertedEdges(d, sl, fd) |->
                          [conf |-> "HIGH", verified |-> FALSE, sources |-> {"wikidata"}]]
  <1>1. n = [d EXCEPT !.works = Upsert(@, works), !.versions = Upsert(@, rows),
                      !.conflicts = @ \cup SpineConflicts(d, sl, fd),
                      !.edges = Upsert(@, edges)]
    BY DEF IngestSpine
  <1> HIDE DEF works, rows, edges
  <1>2. /\ Shaped(n)
        /\ n.candidates = d.candidates /\ n.titles = d.titles /\ n.cast = d.cast
        /\ n.conflicts = d.conflicts \cup SpineConflicts(d, sl, fd)
        /\ n.works = Upsert(d.works, works)
        /\ n.versions = Upsert(d.versions, rows)
        /\ n.edges = Upsert(d.edges, edges)
    BY <1>1 DEF Shaped
  <1>3. /\ Rows(n.works) = Rows(d.works) \cup WorkKeys
        /\ \A w \in WorkKeys : n.works[w] = UpsertWork(d, sl, w)
    BY <1>2, Upserted DEF works
  <1>4. \A r \in targets : entry(r) \in SeedVersions /\ r = Target(d, sl, entry(r))
    OBVIOUS
  <1>5. /\ Rows(d.versions) \subseteq Rows(n.versions)
        /\ \A r \in Rows(n.versions) :
                 \/ r \in Rows(d.versions) /\ n.versions[r] = d.versions[r]
                 \/ \E v \in SeedVersions :
                       r = Target(d, sl, v) /\ n.versions[r] = UpsertVersion(d, sl, fd, v)
    <2>1. DOMAIN rows = targets /\ \A r \in targets : rows[r] = UpsertVersion(d, sl, fd, entry(r))
      BY DEF rows
    <2> HIDE DEF targets, entry
    <2>2. Rows(n.versions) = Rows(d.versions) \cup targets
      BY <1>2, <2>1, Upserted
    <2>3. ASSUME NEW r \in Rows(n.versions)
          PROVE  \/ r \in Rows(d.versions) /\ n.versions[r] = d.versions[r]
                 \/ \E v \in SeedVersions :
                       r = Target(d, sl, v) /\ n.versions[r] = UpsertVersion(d, sl, fd, v)
      <3>1. CASE r \in targets
        <4>1. n.versions[r] = UpsertVersion(d, sl, fd, entry(r))
          BY <1>2, <2>1, <3>1, Upserted
        <4>2. QED
          BY <1>4, <3>1, <4>1
      <3>2. CASE r \notin targets
        BY <1>2, <2>1, <2>2, <3>2, Upserted
      <3>3. QED
        BY <3>1, <3>2
    <2>4. QED
      BY <2>2, <2>3
  <1>6. DOMAIN edges \cap Rows(d.edges) = {}
    BY DEF edges, AssertedEdges
  <1>7. \A e \in DOMAIN edges : edges[e] = [conf |-> "HIGH", verified |-> FALSE, sources |-> {"wikidata"}]
    BY DEF edges
  <1>8. /\ Rows(d.edges) \subseteq Rows(n.edges)
        /\ \A e \in Rows(d.edges) : n.edges[e] = d.edges[e]
        /\ \A e \in Rows(n.edges) \ Rows(d.edges) :
                 n.edges[e] = [conf |-> "HIGH", verified |-> FALSE, sources |-> {"wikidata"}]
    <2>1. n.edges = Upsert(d.edges, edges)
      BY <1>2
    <2>2. /\ Rows(d.edges) \subseteq Rows(n.edges)
          /\ \A e \in Rows(d.edges) : n.edges[e] = d.edges[e]
          /\ \A e \in Rows(n.edges) \ Rows(d.edges) : e \in DOMAIN edges /\ n.edges[e] = edges[e]
      BY <2>1, <1>6, Inserted
    <2>3. QED
      BY <2>2, <1>7
  <1>9. QED
    BY <1>2, <1>3, <1>5, <1>8

\* The conflicts the enrichment of the versions TMDB knows may open.
MovieConflicts(d, fd) ==
    UNION {MovieConflict(d, fd, r, f) :
              r \in Enriched(d, fd), f \in {"release_year", "original_language"}}

LEMMA EnrichChanges ==
    ASSUME NEW d, NEW fd, NEW last, Shaped(d), NEW n, n = EnrichTmdb(d, fd, last)
    PROVE  /\ Shaped(n)
           /\ n.works = d.works /\ n.edges = d.edges /\ n.candidates = d.candidates
           /\ n.conflicts = d.conflicts \cup MovieConflicts(d, fd)
           /\ n.titles = d.titles \cup UNION {MovieTitles(d, r, last) : r \in Enriched(d, fd)}
           /\ Rows(n.cast) = Rows(d.cast) \cup Enriched(d, fd)
           /\ Rows(n.versions) = Rows(d.versions)
           /\ \A r \in Rows(d.versions) :
                 n.versions[r] = d.versions[r] \/ n.versions[r] = [d.versions[r] EXCEPT !.imdb = TRUE]
  <1> DEFINE rows == Enriched(d, fd)
             new == [r \in rows |-> [d.versions[r] EXCEPT !.imdb = TRUE]]
             mt == UNION {MovieTitles(d, r, last) : r \in rows}
             bill == [r \in rows |-> Leads(d, r) \cup fd.movies[r[1]].leads]
  <1>1. n = [d EXCEPT !.versions = Upsert(@, new), !.conflicts = @ \cup MovieConflicts(d, fd),
                      !.titles = @ \cup mt, !.cast = Upsert(@, bill)]
    BY DEF EnrichTmdb, MovieConflicts, UpsertTitles
  <1>2. /\ rows \subseteq Rows(d.versions) /\ DOMAIN new = rows /\ DOMAIN bill = rows
        /\ \A r \in rows : new[r] = [d.versions[r] EXCEPT !.imdb = TRUE]
    BY DEF Enriched
  <1> HIDE DEF new, mt, bill
  <1>3. /\ Shaped(n) /\ n.works = d.works /\ n.edges = d.edges /\ n.candidates = d.candidates
        /\ n.conflicts = d.conflicts \cup MovieConflicts(d, fd) /\ n.titles = d.titles \cup mt
        /\ n.cast = Upsert(d.cast, bill) /\ n.versions = Upsert(d.versions, new)
    BY <1>1 DEF Shaped
  <1>4. Rows(n.cast) = Rows(d.cast) \cup rows
    BY <1>2, <1>3, Upserted
  <1>5. /\ Rows(n.versions) = Rows(d.versions)
        /\ \A r \in Rows(d.versions) :
              n.versions[r] = d.versions[r] \/ (r \in DOMAIN new /\ n.versions[r] = new[r])
    BY <1>2, <1>3, Updated
  <1>6. QED
    BY <1>2, <1>3, <1>4, <1>5 DEF mt, bill

\* The other two title loaders only add to the title index.
LEMMA IndexChanges ==
    ASSUME NEW d, NEW last, Shaped(d), NEW n, n = LoadAkas(d, last) \/ n = RekeyTitles(d)
    PROVE  /\ Shaped(n)
           /\ n.works = d.works /\ n.versions = d.versions /\ n.edges = d.edges
           /\ n.candidates = d.candidates /\ n.conflicts = d.conflicts /\ n.cast = d.cast
           /\ d.titles \subseteq n.titles
           /\ \A t \in n.titles \ d.titles :
                 \E r \in Rows(d.versions) : \/ t \in AkaTitles(d, r, last)
                                             \/ t = <<r, d.versions[r].title, "canonical">>
  <1> DEFINE at == UNION {AkaTitles(d, r, last) : r \in {q \in Rows(d.versions) : d.versions[q].imdb}}
             rt == {<<r, d.versions[r].title, "canonical">> : r \in Rows(d.versions)}
  <1>1. PICK more : more \in {at, rt} /\ n = [d EXCEPT !.titles = @ \cup more]
    BY DEF LoadAkas, RekeyTitles, UpsertTitles
  <1>2. /\ Shaped(n) /\ n.works = d.works /\ n.versions = d.versions /\ n.edges = d.edges
        /\ n.candidates = d.candidates /\ n.conflicts = d.conflicts /\ n.cast = d.cast
        /\ n.titles = d.titles \cup more
    BY <1>1 DEF Shaped
  <1>3. \A t \in more : \E r \in Rows(d.versions) : \/ t \in AkaTitles(d, r, last)
                                                    \/ t = <<r, d.versions[r].title, "canonical">>
    BY <1>1
  <1>4. QED
    BY <1>2, <1>3

LEMMA BuildChanges ==
    ASSUME NEW d, Shaped(d), NEW n, n = BuildGraph(d)
    PROVE  /\ Shaped(n)
           /\ n.works = d.works /\ n.versions = d.versions /\ n.candidates = d.candidates
           /\ n.titles = d.titles /\ n.cast = d.cast
           /\ n.conflicts = d.conflicts \cup RuleConflicts(d)
           /\ Rows(d.edges) \subseteq Rows(n.edges)
           /\ \A e \in Rows(d.edges) : n.edges[e] = d.edges[e]
           /\ \A e \in Rows(n.edges) \ Rows(d.edges) :
                 /\ e[1] = "is_official_dub_of"
                 /\ n.edges[e] = [conf |-> "MEDIUM", verified |-> FALSE, sources |-> {"rule"}]
  <1> DEFINE new == [e \in DerivedDubs(d) |->
                       [conf |-> "MEDIUM", verified |-> FALSE, sources |-> {"rule"}]]
  <1>1. n = [d EXCEPT !.conflicts = @ \cup RuleConflicts(d), !.edges = Upsert(@, new)]
    BY DEF BuildGraph
  <1>2. DOMAIN new \cap Rows(d.edges) = {} /\ \A e \in DOMAIN new : e[1] = "is_official_dub_of"
    BY DEF DerivedDubs
  <1>3. \A e \in DOMAIN new :
            new[e] = [conf |-> "MEDIUM", verified |-> FALSE, sources |-> {"rule"}]
    OBVIOUS
  <1> HIDE DEF new
  <1>4. /\ Shaped(n)
        /\ n.works = d.works /\ n.versions = d.versions /\ n.candidates = d.candidates
        /\ n.titles = d.titles /\ n.cast = d.cast
        /\ n.conflicts = d.conflicts \cup RuleConflicts(d)
        /\ n.edges = Upsert(d.edges, new)
    BY <1>1 DEF Shaped
  <1>5. n.edges = Upsert(d.edges, new)
    BY <1>4
  <1>6. /\ Rows(d.edges) \subseteq Rows(n.edges)
        /\ \A e \in Rows(d.edges) : n.edges[e] = d.edges[e]
        /\ \A e \in Rows(n.edges) \ Rows(d.edges) : e \in DOMAIN new /\ n.edges[e] = new[e]
    BY <1>2, <1>5, Inserted
  <1>7. QED
    BY <1>2, <1>3, <1>4, <1>6

LEMMA LoadChanges ==
    ASSUME NEW d, NEW proposals, NEW bound, Shaped(d),
           NEW n, n = LoadCandidates(d, proposals, bound)
    PROVE  /\ Shaped(n)
           /\ n.works = d.works /\ n.versions = d.versions /\ n.edges = d.edges
           /\ n.titles = d.titles /\ n.cast = d.cast /\ n.conflicts = d.conflicts
           /\ Rows(d.candidates) \subseteq Rows(n.candidates)
           /\ \A k \in Rows(d.candidates) : n.candidates[k] = d.candidates[k]
           /\ \A k \in Rows(n.candidates) \ Rows(d.candidates) :
                 \E p \in proposals :
                    n.candidates[k] = [src |-> bound[p.src],
                                       dst |-> IF bound[p.dst] = bound[p.src] THEN Null
                                               ELSE bound[p.dst],
                                       status |-> "proposed", edge |-> Null]
  <1> DEFINE fresh == {p \in proposals : p.supported /\ CandidateKey(p) \notin Rows(d.candidates)}
             row(p) == [src |-> bound[p.src],
                        dst |-> IF bound[p.dst] = bound[p.src] THEN Null ELSE bound[p.dst],
                        status |-> "proposed", edge |-> Null]
             keys == {CandidateKey(p) : p \in fresh}
             new == [k \in keys |-> row(CHOOSE p \in fresh : CandidateKey(p) = k)]
  <1>1. n = [d EXCEPT !.candidates = Upsert(@, new)]
    BY DEF LoadCandidates
  <1>2. DOMAIN new \cap Rows(d.candidates) = {}
    OBVIOUS
  <1>3. ASSUME NEW k \in DOMAIN new PROVE \E p \in proposals : new[k] = row(p)
    <2>1. PICK p \in fresh : CandidateKey(p) = k
      OBVIOUS
    <2>2. (CHOOSE q \in fresh : CandidateKey(q) = k) \in fresh
      BY <2>1
    <2>3. new[k] = row(CHOOSE q \in fresh : CandidateKey(q) = k)
      OBVIOUS
    <2> HIDE DEF row, new
    <2>4. QED
      BY <2>2, <2>3
  <1> HIDE DEF new
  <1>4. /\ Shaped(n)
        /\ n.works = d.works /\ n.versions = d.versions /\ n.edges = d.edges
        /\ n.titles = d.titles /\ n.cast = d.cast /\ n.conflicts = d.conflicts
        /\ n.candidates = Upsert(d.candidates, new)
    BY <1>1 DEF Shaped
  <1>5. n.candidates = Upsert(d.candidates, new)
    BY <1>4
  <1>6. /\ Rows(d.candidates) \subseteq Rows(n.candidates)
        /\ \A k \in Rows(d.candidates) : n.candidates[k] = d.candidates[k]
        /\ \A k \in Rows(n.candidates) \ Rows(d.candidates) :
              k \in DOMAIN new /\ n.candidates[k] = new[k]
    BY <1>2, <1>5, Inserted
  <1>7. \A k \in Rows(n.candidates) \ Rows(d.candidates) :
            \E p \in proposals : n.candidates[k] = row(p)
    <2> HIDE DEF row
    <2>1. QED
      BY <1>3, <1>6
  <1>8. QED
    BY <1>4, <1>6, <1>7

LEMMA PromoteChanges ==
    ASSUME NEW d, NEW key \in Proposed(d), NEW e, Shaped(d), d.candidates[key] \in CandidateRow,
           e \in Rows(d.edges) => d.edges[e] \in EdgeRow,
           NEW n, n = Promote(d, key, e)
    PROVE  /\ Shaped(n)
           /\ n.works = d.works /\ n.versions = d.versions
           /\ n.titles = d.titles /\ n.cast = d.cast /\ n.conflicts = d.conflicts
           /\ Rows(n.candidates) = Rows(d.candidates)
           /\ \A k \in Rows(d.candidates) : k # key => n.candidates[k] = d.candidates[k]
           /\ n.candidates[key] = [src |-> d.candidates[key].src, dst |-> d.candidates[key].dst,
                                   status |-> "confirmed", edge |-> e]
           /\ Rows(n.edges) = Rows(d.edges) \cup {e}
           /\ \A x \in Rows(d.edges) : x # e => n.edges[x] = d.edges[x]
           /\ \E s \in SUBSET Source :
                 /\ n.edges[e] = [conf |-> "HIGH", verified |-> TRUE, sources |-> s]
                 /\ {"human", "wikipedia"} \subseteq s
                 /\ e \in Rows(d.edges) => d.edges[e].sources \subseteq s
  <1> DEFINE old == IF e \in Rows(d.edges)
                    THEN [d.edges[e] EXCEPT !.sources = MergeSources(@, {"wikipedia", "human"})]
                    ELSE [sources |-> {"wikipedia", "human"}]
             new == [x \in {e} |-> [conf |-> "HIGH", verified |-> TRUE, sources |-> old.sources]]
  <1>1. n = [d EXCEPT !.edges = Upsert(@, new),
                      !.candidates[key].status = "confirmed", !.candidates[key].edge = e]
    BY DEF Promote
  <1>2. /\ old.sources \in SUBSET Source
        /\ {"human", "wikipedia"} \subseteq old.sources
        /\ e \in Rows(d.edges) => d.edges[e].sources \subseteq old.sources
    BY DEF MergeSources, EdgeRow, Source
  <1> HIDE DEF old
  <1>3. DOMAIN new = {e}
        /\ new[e] = [conf |-> "HIGH", verified |-> TRUE, sources |-> old.sources]
    OBVIOUS
  <1> HIDE DEF new
  <1>4. /\ Shaped(n)
        /\ n.works = d.works /\ n.versions = d.versions
        /\ n.titles = d.titles /\ n.cast = d.cast /\ n.conflicts = d.conflicts
        /\ n.edges = Upsert(d.edges, new)
        /\ n.candidates = [d.candidates EXCEPT ![key].status = "confirmed", ![key].edge = e]
    BY <1>1 DEF Shaped
  <1>5. key \in DOMAIN d.candidates
    BY DEF Proposed, Rows
  <1>6. /\ Rows(n.candidates) = Rows(d.candidates)
        /\ \A k \in Rows(d.candidates) : k # key => n.candidates[k] = d.candidates[k]
        /\ n.candidates[key] = [src |-> d.candidates[key].src, dst |-> d.candidates[key].dst,
                                status |-> "confirmed", edge |-> e]
    BY <1>4, <1>5 DEF Rows, CandidateRow
  <1>7. /\ Rows(n.edges) = Rows(d.edges) \cup {e}
        /\ n.edges[e] = new[e]
        /\ \A x \in Rows(d.edges) : x # e => n.edges[x] = d.edges[x]
    <2>1. n.edges = Upsert(d.edges, new) /\ DOMAIN new = {e}
      BY <1>3, <1>4
    <2>2. QED
      BY <2>1, Upserted
  <1>8. QED
    BY <1>2, <1>3, <1>4, <1>6, <1>7

LEMMA RejectChanges ==
    ASSUME NEW d, NEW key \in Proposed(d), Shaped(d), d.candidates[key] \in CandidateRow,
           NEW n, n = Reject(d, key)
    PROVE  /\ Shaped(n)
           /\ n.works = d.works /\ n.versions = d.versions /\ n.edges = d.edges
           /\ n.titles = d.titles /\ n.cast = d.cast /\ n.conflicts = d.conflicts
           /\ Rows(n.candidates) = Rows(d.candidates)
           /\ \A k \in Rows(d.candidates) : k # key => n.candidates[k] = d.candidates[k]
           /\ n.candidates[key] = [src |-> d.candidates[key].src, dst |-> d.candidates[key].dst,
                                   status |-> "rejected", edge |-> d.candidates[key].edge]
  <1>1. key \in DOMAIN d.candidates
    BY DEF Proposed, Rows
  <1>2. n.candidates = [d.candidates EXCEPT ![key].status = "rejected"]
    BY DEF Reject, Shaped
  <1>3. QED
    BY <1>1, <1>2 DEF Reject, Shaped, Rows, CandidateRow

\* Both verifications: edges and versions that were MEDIUM and unreviewed are verified.
LEMMA VerifyChanges ==
    ASSUME NEW d, Shaped(d), NEW n, NEW chosen,
           n = VerifyMediumEdges(d, chosen) \/ n = VerifyMediumVersions(d, chosen)
    PROVE  /\ Shaped(n)
           /\ n.works = d.works /\ n.candidates = d.candidates
           /\ n.titles = d.titles /\ n.cast = d.cast /\ n.conflicts = d.conflicts
           /\ Rows(n.edges) = Rows(d.edges) /\ Rows(n.versions) = Rows(d.versions)
           /\ \A e \in Rows(d.edges) :
                 n.edges[e] = d.edges[e] \/ n.edges[e] = VerifyRow(d.edges[e])
           /\ \A r \in Rows(d.versions) :
                 \/ n.versions[r] = d.versions[r]
                 \/ r \in MediumVersions(d) /\ n.versions[r] = VerifyRow(d.versions[r])
  <1>1. CASE n = VerifyMediumEdges(d, chosen)
    <2> DEFINE es == chosen \cap MediumRuleEdges(d)
               ends == (UNION {{e[2], e[3]} : e \in es}) \cap MediumVersions(d)
               newE == [e \in es |-> VerifyRow(d.edges[e])]
               newV == [r \in ends |-> VerifyRow(d.versions[r])]
    <2>1. n = [d EXCEPT !.edges = Upsert(@, newE), !.versions = Upsert(@, newV)]
      BY <1>1 DEF VerifyMediumEdges
    <2>2. DOMAIN newE \subseteq Rows(d.edges) /\ DOMAIN newV \subseteq Rows(d.versions)
          /\ DOMAIN newV \subseteq MediumVersions(d)
      BY DEF MediumRuleEdges, MediumVersions
    <2>3. /\ \A e \in DOMAIN newE : newE[e] = VerifyRow(d.edges[e])
          /\ \A r \in DOMAIN newV : newV[r] = VerifyRow(d.versions[r])
      OBVIOUS
    <2> HIDE DEF newE, newV
    <2>4. /\ Shaped(n)
          /\ n.works = d.works /\ n.candidates = d.candidates
          /\ n.titles = d.titles /\ n.cast = d.cast /\ n.conflicts = d.conflicts
          /\ n.edges = Upsert(d.edges, newE) /\ n.versions = Upsert(d.versions, newV)
      BY <2>1 DEF Shaped
    <2>5. n.edges = Upsert(d.edges, newE) /\ n.versions = Upsert(d.versions, newV)
      BY <2>4
    <2>6. /\ Rows(n.edges) = Rows(d.edges)
          /\ \A e \in Rows(d.edges) :
                n.edges[e] = d.edges[e] \/ (e \in DOMAIN newE /\ n.edges[e] = newE[e])
      BY <2>2, <2>5, Updated
    <2>7. /\ Rows(n.versions) = Rows(d.versions)
          /\ \A r \in Rows(d.versions) :
                n.versions[r] = d.versions[r] \/ (r \in DOMAIN newV /\ n.versions[r] = newV[r])
      BY <2>2, <2>5, Updated
    <2>8. QED
      BY <2>2, <2>3, <2>4, <2>6, <2>7
  <1>2. CASE n = VerifyMediumVersions(d, chosen)
    <2> DEFINE newV == [r \in chosen \cap MediumVersions(d) |-> VerifyRow(d.versions[r])]
    <2>1. n = [d EXCEPT !.versions = Upsert(@, newV)]
      BY <1>2 DEF VerifyMediumVersions
    <2>2. DOMAIN newV \subseteq Rows(d.versions) /\ DOMAIN newV \subseteq MediumVersions(d)
      BY DEF MediumVersions
    <2>3. \A r \in DOMAIN newV : newV[r] = VerifyRow(d.versions[r])
      OBVIOUS
    <2> HIDE DEF newV
    <2>4. /\ Shaped(n)
          /\ n.works = d.works /\ n.candidates = d.candidates /\ n.edges = d.edges
          /\ n.titles = d.titles /\ n.cast = d.cast /\ n.conflicts = d.conflicts
          /\ n.versions = Upsert(d.versions, newV)
      BY <2>1 DEF Shaped
    <2>5. n.versions = Upsert(d.versions, newV)
      BY <2>4
    <2>6. /\ Rows(n.versions) = Rows(d.versions)
          /\ \A r \in Rows(d.versions) :
                n.versions[r] = d.versions[r] \/ (r \in DOMAIN newV /\ n.versions[r] = newV[r])
      BY <2>2, <2>5, Updated
    <2>7. QED
      BY <2>2, <2>3, <2>4, <2>6
  <1>3. QED
    BY <1>1, <1>2

LEMMA ResolveChanges ==
    ASSUME NEW d, NEW c \in Resolvable(d), NEW y, Shaped(d), NEW n, n = ResolveConflict(d, c, y)
    PROVE  /\ Shaped(n)
           /\ n.works = d.works /\ n.edges = d.edges /\ n.candidates = d.candidates
           /\ n.titles = d.titles /\ n.cast = d.cast
           /\ n.conflicts = (d.conflicts \ {c}) \cup {[c EXCEPT !.status = "resolved"]}
           /\ Rows(n.versions) = Rows(d.versions)
           /\ \A r \in Rows(d.versions) :
                 \/ n.versions[r] = d.versions[r]
                 \/ d.versions[r].qid /\ n.versions[r] = [d.versions[r] EXCEPT !.year = y]
  <1>1. /\ Shaped(n)
        /\ n.works = d.works /\ n.edges = d.edges /\ n.candidates = d.candidates
        /\ n.titles = d.titles /\ n.cast = d.cast
        /\ n.conflicts = (d.conflicts \ {c}) \cup {[c EXCEPT !.status = "resolved"]}
        /\ n.versions = d.versions \/ n.versions = [d.versions EXCEPT ![c.about].year = y]
    BY DEF ResolveConflict, Shaped
  <1>2. c.about \in Rows(d.versions) /\ d.versions[c.about].qid
    BY DEF Resolvable
  <1>3. QED
    BY <1>1, <1>2 DEF Rows

----------------------------------------------------------------------------
(* Versions.                                                               *)

\* The version upsert: a row is made anew, or keeps what it may not lose.
LEMMA UpsertVersionKeeps ==
    ASSUME NEW d, NEW sl \in Slice, NEW fd, NEW v \in SeedVersions, NEW r, r = Target(d, sl, v),
           r \in Rows(d.versions) => d.versions[r] \in VersionRow,
           NEW row, row = UpsertVersion(d, sl, fd, v)
    PROVE  /\ row \in VersionRow
           /\ r \in Rows(d.versions) =>
                 /\ d.versions[r].sources \subseteq row.sources
                 /\ d.versions[r].conf = "HIGH" => row.conf = "HIGH"
                 /\ row.qid = d.versions[r].qid
                 /\ row.verified = d.versions[r].verified
                 /\ d.versions[r].verified =>
                       \A f \in {"title", "year", "original"} : row[f] = d.versions[r][f]
           /\ r \notin Rows(d.versions) =>
                 ~ row.verified /\ (row.qid => row.conf = "HIGH")
  <1> DEFINE known == HasEntity(sl, fd, v)
             tmdb == known /\ v \in fd.tmdbIds
             imdb == known /\ v \in fd.imdbIds
             high == v \in sl.qid
             source == SliceSources(high)
  <1>1. source \in SUBSET Source
    BY DEF SliceSources, Source
  <1>2. known \in BOOLEAN /\ tmdb \in BOOLEAN /\ imdb \in BOOLEAN /\ high \in BOOLEAN
    BY DEF HasEntity
  <1>3. sl.title[v] \in Titles /\ sl.year[v] \in Years /\ (v \in Originals) \in BOOLEAN
    BY DEF Slice
  <1>4. CASE r \notin Rows(d.versions)
    <2>1. row = [title |-> sl.title[v], year |-> sl.year[v], qid |-> high, tmdb |-> tmdb,
                 imdb |-> imdb, original |-> v \in Originals,
                 conf |-> IF high THEN "HIGH" ELSE "MEDIUM", verified |-> FALSE,
                 sources |-> source]
      BY <1>4 DEF UpsertVersion
    <2> HIDE DEF known, tmdb, imdb, high, source
    <2>2. row \in VersionRow
      BY <1>1, <1>2, <1>3, <2>1 DEF VersionRow
    <2>3. ~ row.verified /\ (row.qid => row.conf = "HIGH")
      BY <2>1
    <2>4. QED
      BY <1>4, <2>2, <2>3
  <1>5. CASE r \in Rows(d.versions)
    <2> DEFINE old == d.versions[r]
               base == [old EXCEPT !.sources = MergeSources(@, source)]
    <2>1. row = IF base.verified
                THEN [base EXCEPT !.tmdb = @ \/ tmdb, !.imdb = @ \/ imdb]
                ELSE [base EXCEPT !.tmdb = IF known THEN tmdb ELSE @,
                                  !.imdb = IF known THEN imdb ELSE @,
                                  !.title = sl.title[v], !.year = sl.year[v],
                                  !.original = v \in Originals,
                                  !.conf = IF high THEN "HIGH" ELSE @]
      BY <1>5 DEF UpsertVersion
    <2> HIDE DEF known, tmdb, imdb, high, source, old
    <2>2. old \in VersionRow
      BY <1>5 DEF old
    <2>3. base \in VersionRow /\ base.sources = old.sources \cup source
          /\ \A f \in {"title", "year", "original", "qid", "conf", "verified", "tmdb", "imdb"} :
                base[f] = old[f]
      BY <1>1, <2>2 DEF VersionRow, MergeSources
    <2> HIDE DEF base
    <2>4. CASE base.verified
      <3>1. row = [base EXCEPT !.tmdb = @ \/ tmdb, !.imdb = @ \/ imdb]
        BY <2>1, <2>4
      <3>2. row \in VersionRow
        BY <1>2, <2>3, <3>1 DEF VersionRow
      <3>3. \A f \in {"title", "year", "original", "qid", "conf", "verified", "sources"} :
                row[f] = base[f]
        BY <2>3, <3>1 DEF VersionRow
      <3>4. QED
        BY <1>5, <2>3, <3>2, <3>3 DEF old
    <2>5. CASE ~ base.verified
      <3>1. row = [base EXCEPT !.tmdb = IF known THEN tmdb ELSE @,
                                  !.imdb = IF known THEN imdb ELSE @,
                                  !.title = sl.title[v], !.year = sl.year[v],
                                  !.original = v \in Originals,
                                  !.conf = IF high THEN "HIGH" ELSE @]
        BY <2>1, <2>5
      <3>2. row \in VersionRow
        BY <1>2, <1>3, <2>3, <3>1 DEF VersionRow
      <3>3. /\ \A f \in {"qid", "verified", "sources"} : row[f] = base[f]
            /\ row.conf = IF high THEN "HIGH" ELSE base.conf
        BY <2>3, <3>1 DEF VersionRow
      <3>4. QED
        BY <1>5, <2>3, <2>5, <3>2, <3>3 DEF old
    <2>6. QED
      BY <2>4, <2>5
  <1>6. QED
    BY <1>4, <1>5
LEMMA TargetIsRow ==
    ASSUME NEW d, Rows(d.versions) \subseteq Row, NEW sl \in Slice, NEW v \in SeedVersions
    PROVE  Target(d, sl, v) \in Row
  <1>1. <<v, sl.year[v]>> \in Row
    BY DEF Row, Slice
  <1>2. ByQid(d, sl, v) \subseteq Row /\ ByYear(d, sl, v) \subseteq Row
    BY DEF ByQid, ByYear
  <1>3. QED
    BY <1>1, <1>2 DEF Target

\* Every command keeps what humans decided about versions, and an identified version
\* stays unreviewed and HIGH.
VersionsOK(d) ==
    /\ Rows(d.versions) \subseteq Row
    /\ \A r \in Rows(d.versions) : d.versions[r] \in VersionRow
    /\ ReviewedApart(d)

LEMMA SpineVersions ==
    ASSUME NEW d, NEW sl \in Slice, NEW fd, Shaped(d), VersionsOK(d), NEW n, n = IngestSpine(d, sl, fd)
    PROVE  VersionsKept(d, n) /\ VersionsOK(n)
  <1>1. /\ Rows(d.versions) \subseteq Rows(n.versions)
        /\ \A r \in Rows(n.versions) :
                 \/ r \in Rows(d.versions) /\ n.versions[r] = d.versions[r]
                 \/ \E v \in SeedVersions :
                       r = Target(d, sl, v) /\ n.versions[r] = UpsertVersion(d, sl, fd, v)
    BY SpineChanges
  <1>2. ASSUME NEW r \in Rows(n.versions)
        PROVE  /\ r \in Row
               /\ n.versions[r] \in VersionRow
               /\ n.versions[r].qid => n.versions[r].conf = "HIGH"
               /\ n.versions[r].verified => ~ n.versions[r].qid
               /\ r \in Rows(d.versions) =>
                    /\ d.versions[r].sources \subseteq n.versions[r].sources
                    /\ d.versions[r].conf = "HIGH" => n.versions[r].conf = "HIGH"
                    /\ d.versions[r].verified =>
                         /\ n.versions[r].verified
                         /\ \A f \in {"title", "year", "original"} :
                               n.versions[r][f] = d.versions[r][f]
    <2>1. CASE r \in Rows(d.versions) /\ n.versions[r] = d.versions[r]
      BY <2>1 DEF VersionsOK, ReviewedApart
    <2>2. CASE \E v \in SeedVersions :
                  r = Target(d, sl, v) /\ n.versions[r] = UpsertVersion(d, sl, fd, v)
      <3>1. PICK v \in SeedVersions :
                  r = Target(d, sl, v) /\ n.versions[r] = UpsertVersion(d, sl, fd, v)
        BY <2>2
      <3>2. r \in Row
        BY <3>1, TargetIsRow DEF VersionsOK
      <3>3. r \in Rows(d.versions) =>
                /\ d.versions[r] \in VersionRow
                /\ d.versions[r].qid => d.versions[r].conf = "HIGH"
                /\ d.versions[r].verified => ~ d.versions[r].qid
        BY DEF VersionsOK, ReviewedApart
      <3> DEFINE row == n.versions[r]
      <3>a. /\ r \in Rows(d.versions) => d.versions[r] \in VersionRow
            /\ r = Target(d, sl, v) /\ row = UpsertVersion(d, sl, fd, v)
        BY <3>1, <3>3
      <3> HIDE DEF row
      <3>4. /\ row \in VersionRow
            /\ r \in Rows(d.versions) =>
                 /\ d.versions[r].sources \subseteq row.sources
                 /\ d.versions[r].conf = "HIGH" => row.conf = "HIGH"
                 /\ row.qid = d.versions[r].qid
                 /\ row.verified = d.versions[r].verified
                 /\ d.versions[r].verified =>
                       \A f \in {"title", "year", "original"} : row[f] = d.versions[r][f]
            /\ r \notin Rows(d.versions) =>
                 ~ row.verified /\ (row.qid => row.conf = "HIGH")
        BY <3>a, UpsertVersionKeeps
      <3>5. QED
        BY <3>2, <3>3, <3>4 DEF row
    <2>3. QED
      BY <1>1, <2>1, <2>2
  <1>3. QED
    BY <1>1, <1>2 DEF VersionsKept, VersionsOK, ReviewedApart

\* The other commands change a version's identifiers, its year or its review, each
\* where it may.
LEMMA OtherVersions ==
    ASSUME NEW d, NEW n, VersionsOK(d), Rows(n.versions) = Rows(d.versions),
           \A r \in Rows(d.versions) :
              \/ n.versions[r] = d.versions[r]
              \/ n.versions[r] = [d.versions[r] EXCEPT !.imdb = TRUE]
              \/ r \in MediumVersions(d) /\ n.versions[r] = VerifyRow(d.versions[r])
              \/ d.versions[r].qid /\ \E y \in Years : n.versions[r] = [d.versions[r] EXCEPT !.year = y]
    PROVE  VersionsKept(d, n) /\ VersionsOK(n)
  <1>1. ASSUME NEW r \in Rows(d.versions)
        PROVE  /\ n.versions[r] \in VersionRow
               /\ n.versions[r].qid => n.versions[r].conf = "HIGH"
               /\ n.versions[r].verified => ~ n.versions[r].qid
               /\ d.versions[r].sources \subseteq n.versions[r].sources
               /\ d.versions[r].conf = "HIGH" => n.versions[r].conf = "HIGH"
               /\ d.versions[r].verified =>
                    /\ n.versions[r].verified
                    /\ \A f \in {"title", "year", "original"} :
                          n.versions[r][f] = d.versions[r][f]
    <2> DEFINE old == d.versions[r]
               row == n.versions[r]
    <2>1. /\ old \in VersionRow
          /\ old.qid => old.conf = "HIGH"
          /\ old.verified => ~ old.qid
      BY DEF VersionsOK, ReviewedApart
    <2>2. r \in MediumVersions(d) => old.conf = "MEDIUM"
      BY DEF MediumVersions
    <2>3. \/ row = old
          \/ row = [old EXCEPT !.imdb = TRUE]
          \/ r \in MediumVersions(d) /\ row = VerifyRow(old)
          \/ old.qid /\ \E y \in Years : row = [old EXCEPT !.year = y]
      OBVIOUS
    <2> HIDE DEF old, row
    <2>4. CASE row = old
      BY <2>1, <2>4 DEF old, row
    <2>5. CASE row = [old EXCEPT !.imdb = TRUE]
      BY <2>1, <2>5 DEF old, row, VersionRow
    <2>6. CASE r \in MediumVersions(d) /\ row = VerifyRow(old)
      <3>1. row = [old EXCEPT !.verified = TRUE, !.sources = @ \cup {"human"}]
        BY <2>6 DEF VerifyRow, MergeSources
      <3>2. row \in VersionRow
        BY <2>1, <3>1 DEF VersionRow, Source
      <3>3. /\ row.verified /\ row.conf = old.conf /\ row.qid = old.qid
            /\ row.sources = old.sources \cup {"human"}
            /\ \A f \in {"title", "year", "original"} : row[f] = old[f]
        BY <2>1, <3>1 DEF VersionRow
      <3>4. ~ old.qid
        BY <2>1, <2>2, <2>6
      <3>5. QED
        BY <2>1, <3>2, <3>3, <3>4 DEF old, row
    <2>7. CASE old.qid /\ \E y \in Years : row = [old EXCEPT !.year = y]
      BY <2>1, <2>7 DEF old, row, VersionRow
    <2>8. QED
      BY <2>3, <2>4, <2>5, <2>6, <2>7
  <1>2. QED
    BY <1>1 DEF VersionsKept, VersionsOK, ReviewedApart
----------------------------------------------------------------------------
(* Edges and candidates.                                                   *)

\* The edges of confirmed candidates.
ConfirmedEdges(d) ==
    {d.candidates[k].edge : k \in {x \in Rows(d.candidates) : d.candidates[x].status = "confirmed"}}

\* The row of an edge shows where the edge comes from.
Sourced(e, row) ==
    \/ "wikidata" \in row.sources /\ row.conf = "HIGH"
    \/ "rule" \in row.sources /\ e[1] = "is_official_dub_of"

\* The row of an edge a reviewer confirmed.
Reviewed(row) == row.verified /\ row.conf = "HIGH" /\ {"human", "wikipedia"} \subseteq row.sources

Evidence(d) ==
    /\ \A e \in Rows(d.edges) : Sourced(e, d.edges[e]) \/ e \in ConfirmedEdges(d)
    /\ \A e \in ConfirmedEdges(d) : e \in Rows(d.edges) /\ Reviewed(d.edges[e])

EdgesOK(d) ==
    /\ \A e \in Rows(d.edges) : d.edges[e] \in EdgeRow
    /\ \A k \in Rows(d.candidates) : d.candidates[k] \in CandidateRow
    /\ Evidence(d)

\* Evidence is never lost with rows that are kept, so only new edges and new
\* confirmations have to bring theirs.
LEMMA EvidenceKept ==
    ASSUME NEW d, NEW n, Evidence(d), EdgesKept(d, n), CandidatesKept(d, n),
           \A e \in Rows(n.edges) \ Rows(d.edges) : Sourced(e, n.edges[e]) \/ e \in ConfirmedEdges(n),
           \A e \in ConfirmedEdges(n) \ ConfirmedEdges(d) :
                 e \in Rows(n.edges) /\ Reviewed(n.edges[e])
    PROVE  Evidence(n)
  <1>1. ConfirmedEdges(d) \subseteq ConfirmedEdges(n)
    <2> SUFFICES ASSUME NEW k \in Rows(d.candidates), d.candidates[k].status = "confirmed"
                 PROVE  d.candidates[k].edge \in ConfirmedEdges(n)
      BY DEF ConfirmedEdges
    <2>1. k \in Rows(n.candidates) /\ n.candidates[k] = d.candidates[k]
      BY DEF CandidatesKept
    <2>2. QED
      BY <2>1 DEF ConfirmedEdges
  <1>2. ASSUME NEW e \in Rows(d.edges)
        PROVE  /\ e \in Rows(n.edges)
               /\ Sourced(e, d.edges[e]) => Sourced(e, n.edges[e])
               /\ Reviewed(d.edges[e]) => Reviewed(n.edges[e])
    BY DEF EdgesKept, Sourced, Reviewed
  <1>3. ASSUME NEW e \in Rows(n.edges)
        PROVE  Sourced(e, n.edges[e]) \/ e \in ConfirmedEdges(n)
    BY <1>1, <1>2, <1>3 DEF Evidence
  <1>4. ASSUME NEW e \in ConfirmedEdges(n)
        PROVE  e \in Rows(n.edges) /\ Reviewed(n.edges[e])
    BY <1>2, <1>4 DEF Evidence
  <1>5. QED
    BY <1>3, <1>4 DEF Evidence

\* A row of the edges table that is only verified keeps all it had.
LEMMA VerifiedEdge ==
    ASSUME NEW row \in EdgeRow
    PROVE  /\ VerifyRow(row) \in EdgeRow
           /\ VerifyRow(row).verified /\ VerifyRow(row).conf = row.conf
           /\ row.sources \subseteq VerifyRow(row).sources
  BY DEF VerifyRow, MergeSources, EdgeRow, Source

\* The loaders assert new edges with their source and leave the others alone.
LEMMA LoadedEdges ==
    ASSUME NEW d, NEW n, EdgesOK(d), n.candidates = d.candidates,
           Rows(d.edges) \subseteq Rows(n.edges),
           \A e \in Rows(d.edges) : n.edges[e] = d.edges[e],
           \A e \in Rows(n.edges) \ Rows(d.edges) :
              \/ n.edges[e] = [conf |-> "HIGH", verified |-> FALSE, sources |-> {"wikidata"}]
              \/ /\ e[1] = "is_official_dub_of"
                 /\ n.edges[e] = [conf |-> "MEDIUM", verified |-> FALSE, sources |-> {"rule"}]
    PROVE  EdgesKept(d, n) /\ CandidatesKept(d, n) /\ EdgesOK(n)
  <1>1. EdgesKept(d, n) /\ CandidatesKept(d, n)
    BY DEF EdgesKept, CandidatesKept, EdgesOK
  <1>2. ASSUME NEW e \in Rows(n.edges) \ Rows(d.edges)
        PROVE  n.edges[e] \in EdgeRow /\ Sourced(e, n.edges[e])
    <2>1. CASE n.edges[e] = [conf |-> "HIGH", verified |-> FALSE, sources |-> {"wikidata"}]
      BY <2>1 DEF EdgeRow, Source, Sourced
    <2>2. CASE /\ e[1] = "is_official_dub_of"
               /\ n.edges[e] = [conf |-> "MEDIUM", verified |-> FALSE, sources |-> {"rule"}]
      BY <2>2 DEF EdgeRow, Source, Sourced
    <2>3. QED
      BY <1>2, <2>1, <2>2
  <1>3. \A e \in Rows(n.edges) : n.edges[e] \in EdgeRow
    BY <1>2 DEF EdgesOK
  <1>4. ConfirmedEdges(n) = ConfirmedEdges(d)
    BY DEF ConfirmedEdges
  <1>5. Evidence(n)
    BY <1>1, <1>2, <1>4, EvidenceKept DEF EdgesOK
  <1>6. QED
    BY <1>1, <1>3, <1>5 DEF EdgesOK

\* Extraction adds candidates nobody has decided, and no edge.
LEMMA ExtractedEdges ==
    ASSUME NEW d, NEW n, EdgesOK(d), n.edges = d.edges,
           Rows(d.candidates) \subseteq Rows(n.candidates),
           \A k \in Rows(d.candidates) : n.candidates[k] = d.candidates[k],
           \A k \in Rows(n.candidates) \ Rows(d.candidates) :
              n.candidates[k] \in CandidateRow /\ n.candidates[k].status = "proposed"
    PROVE  EdgesKept(d, n) /\ CandidatesKept(d, n) /\ EdgesOK(n)
  <1>1. EdgesKept(d, n) /\ CandidatesKept(d, n)
    BY DEF EdgesKept, CandidatesKept, EdgesOK
  <1>2. ConfirmedEdges(n) \subseteq ConfirmedEdges(d)
    BY DEF ConfirmedEdges
  <1>3. Evidence(n)
    BY <1>1, <1>2, EvidenceKept DEF EdgesOK
  <1>4. QED
    BY <1>1, <1>3 DEF EdgesOK

\* A promotion verifies the edge its candidate names.
LEMMA PromotedEdges ==
    ASSUME NEW d, NEW key \in Proposed(d), NEW e \in EdgeKey, Shaped(d), EdgesOK(d),
           NEW n, n = Promote(d, key, e)
    PROVE  EdgesKept(d, n) /\ CandidatesKept(d, n) /\ EdgesOK(n)
  <1>1. /\ key \in Rows(d.candidates) /\ d.candidates[key] \in CandidateRow
        /\ d.candidates[key].status = "proposed"
        /\ e \in Rows(d.edges) => d.edges[e] \in EdgeRow
    BY DEF Proposed, EdgesOK
  <1>2. /\ Rows(n.candidates) = Rows(d.candidates)
        /\ \A k \in Rows(d.candidates) : k # key => n.candidates[k] = d.candidates[k]
        /\ n.candidates[key] = [src |-> d.candidates[key].src, dst |-> d.candidates[key].dst,
                                status |-> "confirmed", edge |-> e]
        /\ Rows(n.edges) = Rows(d.edges) \cup {e}
        /\ \A x \in Rows(d.edges) : x # e => n.edges[x] = d.edges[x]
    BY <1>1, PromoteChanges
  <1>3. PICK s \in SUBSET Source :
                 /\ n.edges[e] = [conf |-> "HIGH", verified |-> TRUE, sources |-> s]
                 /\ {"human", "wikipedia"} \subseteq s
                 /\ e \in Rows(d.edges) => d.edges[e].sources \subseteq s
    BY <1>1, PromoteChanges
  <1>4. n.edges[e] \in EdgeRow /\ Reviewed(n.edges[e])
    BY <1>3 DEF EdgeRow, Reviewed
  <1>5. /\ n.candidates[key] \in CandidateRow
        /\ n.candidates[key].status = "confirmed" /\ n.candidates[key].edge = e
    BY <1>1, <1>2 DEF CandidateRow
  <1>6. EdgesKept(d, n)
    <2> SUFFICES ASSUME NEW x \in Rows(d.edges)
                 PROVE  /\ x \in Rows(n.edges)
                        /\ d.edges[x].sources \subseteq n.edges[x].sources
                        /\ d.edges[x].conf = "HIGH" => n.edges[x].conf = "HIGH"
                        /\ d.edges[x].verified => n.edges[x].verified
      BY DEF EdgesKept
    <2>1. CASE x = e
      BY <1>2, <1>3, <2>1
    <2>2. CASE x # e
      BY <1>2, <2>2
    <2>3. QED
      BY <2>1, <2>2
  <1>7. CandidatesKept(d, n)
    BY <1>1, <1>2 DEF CandidatesKept
  <1>8. e \in ConfirmedEdges(n) /\ ConfirmedEdges(n) \subseteq ConfirmedEdges(d) \cup {e}
    <2>1. e \in ConfirmedEdges(n)
      BY <1>1, <1>2, <1>5 DEF ConfirmedEdges
    <2>2. ASSUME NEW k \in Rows(n.candidates), n.candidates[k].status = "confirmed"
          PROVE  n.candidates[k].edge \in ConfirmedEdges(d) \cup {e}
      <3>1. CASE k = key
        BY <1>5, <3>1
      <3>2. CASE k # key
        BY <1>2, <2>2, <3>2 DEF ConfirmedEdges
      <3>3. QED
        BY <3>1, <3>2
    <2>3. QED
      BY <2>1, <2>2 DEF ConfirmedEdges
  <1>9. Evidence(n)
    <2>1. \A x \in Rows(n.edges) \ Rows(d.edges) : x \in ConfirmedEdges(n)
      BY <1>2, <1>8
    <2>2. \A x \in ConfirmedEdges(n) \ ConfirmedEdges(d) :
              x \in Rows(n.edges) /\ Reviewed(n.edges[x])
      BY <1>2, <1>4, <1>8
    <2>3. QED
      BY <1>6, <1>7, <2>1, <2>2, EvidenceKept DEF EdgesOK
  <1>10. (\A x \in Rows(n.edges) : n.edges[x] \in EdgeRow)
         /\ (\A k \in Rows(n.candidates) : n.candidates[k] \in CandidateRow)
    BY <1>2, <1>4, <1>5 DEF EdgesOK
  <1>11. QED
    BY <1>6, <1>7, <1>9, <1>10 DEF EdgesOK

\* A rejection touches one undecided candidate.
LEMMA RejectedEdges ==
    ASSUME NEW d, NEW key \in Proposed(d), Shaped(d), EdgesOK(d), NEW n, n = Reject(d, key)
    PROVE  EdgesKept(d, n) /\ CandidatesKept(d, n) /\ EdgesOK(n)
  <1>1. /\ key \in Rows(d.candidates) /\ d.candidates[key] \in CandidateRow
        /\ d.candidates[key].status = "proposed"
    BY DEF Proposed, EdgesOK
  <1>2. /\ n.edges = d.edges
        /\ Rows(n.candidates) = Rows(d.candidates)
        /\ \A k \in Rows(d.candidates) : k # key => n.candidates[k] = d.candidates[k]
        /\ n.candidates[key] = [src |-> d.candidates[key].src, dst |-> d.candidates[key].dst,
                                status |-> "rejected", edge |-> d.candidates[key].edge]
    BY <1>1, RejectChanges
  <1>3. n.candidates[key] \in CandidateRow /\ n.candidates[key].status = "rejected"
    BY <1>1, <1>2 DEF CandidateRow
  <1>4. EdgesKept(d, n) /\ CandidatesKept(d, n)
    BY <1>1, <1>2 DEF EdgesKept, CandidatesKept, EdgesOK
  <1>5. ConfirmedEdges(n) \subseteq ConfirmedEdges(d)
    BY <1>2, <1>3 DEF ConfirmedEdges
  <1>6. Evidence(n)
    BY <1>2, <1>4, <1>5, EvidenceKept DEF EdgesOK
  <1>7. QED
    BY <1>2, <1>3, <1>4, <1>6 DEF EdgesOK

\* Verification adds a reviewer to the provenance.
LEMMA VerifiedEdges ==
    ASSUME NEW d, NEW n, EdgesOK(d), n.candidates = d.candidates, Rows(n.edges) = Rows(d.edges),
           \A e \in Rows(d.edges) : n.edges[e] = d.edges[e] \/ n.edges[e] = VerifyRow(d.edges[e])
    PROVE  EdgesKept(d, n) /\ CandidatesKept(d, n) /\ EdgesOK(n)
  <1>1. ASSUME NEW e \in Rows(d.edges)
        PROVE  /\ n.edges[e] \in EdgeRow
               /\ d.edges[e].sources \subseteq n.edges[e].sources
               /\ d.edges[e].conf = "HIGH" => n.edges[e].conf = "HIGH"
               /\ d.edges[e].verified => n.edges[e].verified
    <2>1. d.edges[e] \in EdgeRow
      BY DEF EdgesOK
    <2>2. QED
      BY <2>1, VerifiedEdge
  <1>2. EdgesKept(d, n) /\ CandidatesKept(d, n)
    BY <1>1 DEF EdgesKept, CandidatesKept
  <1>3. ConfirmedEdges(n) = ConfirmedEdges(d)
    BY DEF ConfirmedEdges
  <1>4. Evidence(n)
    BY <1>2, <1>3, EvidenceKept DEF EdgesOK
  <1>5. QED
    BY <1>1, <1>2, <1>4 DEF EdgesOK

----------------------------------------------------------------------------
(* Conflicts.                                                              *)

\* The conflicts about a value are numbered in the order they were opened, and
\* at most one of them is open.  Of a version only the year is ever left to a human.
OneOpen(d) ==
    \A c, x \in d.conflicts :
        (c.about = x.about /\ c.field = x.field /\ (c.nth = x.nth \/ {c.status, x.status} = {"open"}))
          => c = x

Numbered(d) ==
    /\ d.conflicts \subseteq ConflictRow
    /\ OneOpen(d)
    /\ \A a \in Row \cup EdgeKey, f \in Field : IsFiniteSet(Conflicts(d, a, f))
    /\ \A c \in d.conflicts : c.nth <= Cardinality(Conflicts(d, c.about, c.field))
    /\ \A c \in d.conflicts : c.about \in Row /\ c.status = "open" => c.field = "release_year"

\* What a loader may add: at most one conflict about a value, the next one in order,
\* and an open one only where none is open.
Opens(d, added) ==
    /\ \A x \in added :
          /\ x.about \in Row \cup EdgeKey /\ x.field \in Field
          /\ x.status \in {"open", "resolved"}
          /\ x = NewConflict(d, x.about, x.field, x.status)
          /\ x.status = "open" => ~ OpenConflict(d, x.about, x.field)
          /\ (x.about \in Row /\ x.status = "open") => x.field = "release_year"
    /\ \A x, y \in added : x.about = y.about /\ x.field = y.field => x = y

LEMMA NewConflictNumber ==
    ASSUME NEW d, Numbered(d), NEW added, Opens(d, added), NEW x \in added
    PROVE  /\ x \in ConflictRow
           /\ x.nth = Cardinality(Conflicts(d, x.about, x.field)) + 1
           /\ \A c \in Conflicts(d, x.about, x.field) : c.nth < x.nth
           /\ x \notin d.conflicts
  <1> DEFINE old == Conflicts(d, x.about, x.field)
  <1>1. /\ x.about \in Row \cup EdgeKey /\ x.field \in Field /\ x.status \in {"open", "resolved"}
        /\ x = NewConflict(d, x.about, x.field, x.status)
    BY DEF Opens
  <1>2. IsFiniteSet(old) /\ Cardinality(old) \in Nat
    BY <1>1, FS_CardinalityType DEF Numbered
  <1>3. x = [about |-> x.about, field |-> x.field, status |-> x.status, nth |-> Cardinality(old) + 1]
    BY <1>1 DEF NewConflict
  <1>4. x.nth = Cardinality(old) + 1 /\ x.nth \in Nat \ {0}
    BY <1>2, <1>3
  <1>5. x \in ConflictRow
    BY <1>1, <1>3, <1>4 DEF ConflictRow
  <1>6. \A c \in old : c.nth < x.nth
    BY <1>2, <1>4 DEF Numbered, Conflicts, ConflictRow
  <1>7. x \notin d.conflicts
    BY <1>4, <1>6 DEF Conflicts
  <1>8. QED
    BY <1>4, <1>5, <1>6, <1>7

LEMMA AddConflicts ==
    ASSUME NEW d, NEW n, NEW added, Numbered(d), n.conflicts = d.conflicts \cup added, Opens(d, added)
    PROVE  Numbered(n) /\ ConflictsKept(d, n)
  <1>1. ASSUME NEW a \in Row \cup EdgeKey, NEW f \in Field
        PROVE  /\ IsFiniteSet(Conflicts(d, a, f)) /\ Cardinality(Conflicts(d, a, f)) \in Nat
               /\ IsFiniteSet(Conflicts(n, a, f)) /\ Cardinality(Conflicts(n, a, f)) \in Nat
               /\ Cardinality(Conflicts(d, a, f)) <= Cardinality(Conflicts(n, a, f))
               /\ \A x \in added : x.about = a /\ x.field = f =>
                     Cardinality(Conflicts(n, a, f)) = x.nth
    <2> DEFINE old == Conflicts(d, a, f)
    <2>1. IsFiniteSet(old) /\ Cardinality(old) \in Nat
      BY FS_CardinalityType DEF Numbered
    <2>2. CASE \E x \in added : x.about = a /\ x.field = f
      <3>1. PICK x \in added : x.about = a /\ x.field = f
        BY <2>2
      <3>2. Conflicts(n, a, f) = old \cup {x}
        BY <3>1 DEF Conflicts, Opens
      <3>3. x \notin old /\ x.nth = Cardinality(old) + 1
        BY <3>1, NewConflictNumber DEF Conflicts
      <3> HIDE DEF old
      <3>4. IsFiniteSet(old \cup {x}) /\ Cardinality(old \cup {x}) = Cardinality(old) + 1
        BY <2>1, <3>3, FS_AddElement
      <3>5. \A y \in added : y.about = a /\ y.field = f => y = x
        BY <3>1 DEF Opens
      <3>6. /\ IsFiniteSet(Conflicts(n, a, f)) /\ Cardinality(Conflicts(n, a, f)) \in Nat
            /\ Cardinality(Conflicts(n, a, f)) = Cardinality(old) + 1
        BY <2>1, <3>2, <3>4
      <3>7. Cardinality(old) <= Cardinality(Conflicts(n, a, f))
        BY <2>1, <3>6
      <3>8. \A y \in added : y.about = a /\ y.field = f => Cardinality(Conflicts(n, a, f)) = y.nth
        BY <3>3, <3>5, <3>6
      <3>9. QED
        BY <2>1, <3>6, <3>7, <3>8 DEF old
    <2>3. CASE ~ \E x \in added : x.about = a /\ x.field = f
      <3>1. Conflicts(n, a, f) = old
        BY <2>3 DEF Conflicts
      <3>2. QED
        BY <2>1, <2>3, <3>1
    <2>4. QED
      BY <2>2, <2>3
  <1>2. n.conflicts \subseteq ConflictRow
    BY NewConflictNumber DEF Numbered
  <1>3. \A c \in d.conflicts : c \in ConflictRow /\ c.nth <= Cardinality(Conflicts(d, c.about, c.field))
    BY DEF Numbered
  <1>4. ASSUME NEW c \in n.conflicts
        PROVE  c.nth <= Cardinality(Conflicts(n, c.about, c.field))
    <2>1. c.about \in Row \cup EdgeKey /\ c.field \in Field /\ c.nth \in Nat
      BY <1>2 DEF ConflictRow
    <2>2. CASE c \in d.conflicts
      BY <1>1, <1>3, <2>1, <2>2
    <2>3. CASE c \in added
      <3>1. Cardinality(Conflicts(n, c.about, c.field)) = c.nth
        BY <1>1, <2>1, <2>3
      <3>2. QED
        BY <2>1, <3>1
    <2>4. QED
      BY <2>2, <2>3
  <1>5. ASSUME NEW c \in d.conflicts, NEW x \in added, c.about = x.about, c.field = x.field
        PROVE  c.nth # x.nth /\ ~ (c.status = "open" /\ x.status = "open")
    <2>1. c \in Conflicts(d, x.about, x.field)
      BY <1>5 DEF Conflicts
    <2>2. c.nth < x.nth /\ c.nth \in Nat /\ x.nth \in Nat
      BY <2>1, <1>2, <1>3, NewConflictNumber DEF ConflictRow
    <2>3. x.status = "open" => c.status # "open"
      BY <2>1 DEF Opens, OpenConflict
    <2>4. QED
      BY <2>2, <2>3
  <1>6. OneOpen(n)
    <2> SUFFICES ASSUME NEW c \in n.conflicts, NEW x \in n.conflicts,
                        c.about = x.about, c.field = x.field,
                        c.nth = x.nth \/ {c.status, x.status} = {"open"}
                 PROVE  c = x
      BY DEF OneOpen
    <2>1. c.nth = x.nth \/ (c.status = "open" /\ x.status = "open")
      OBVIOUS
    <2>2. CASE c \in d.conflicts /\ x \in d.conflicts
      BY <2>2 DEF Numbered, OneOpen
    <2>3. CASE c \in added /\ x \in added
      BY <2>3 DEF Opens
    <2>4. CASE c \in d.conflicts /\ x \in added
      BY <1>5, <2>1, <2>4
    <2>5. CASE c \in added /\ x \in d.conflicts
      BY <1>5, <2>1, <2>5
    <2>6. QED
      BY <2>2, <2>3, <2>4, <2>5
  <1>7. ConflictsKept(d, n)
    BY DEF ConflictsKept
  <1>8. \A c \in n.conflicts : c.about \in Row /\ c.status = "open" => c.field = "release_year"
    BY DEF Numbered, Opens
  <1>9. QED
    BY <1>1, <1>2, <1>4, <1>6, <1>7, <1>8 DEF Numbered

\* Settling a conflict changes its status and nothing else of it.
LEMMA SettleConflict ==
    ASSUME NEW d, NEW n, Numbered(d), NEW c \in d.conflicts, c.status = "open",
           n.conflicts = (d.conflicts \ {c}) \cup {[c EXCEPT !.status = "resolved"]}
    PROVE  Numbered(n) /\ ConflictsKept(d, n)
  <1> DEFINE settled == [c EXCEPT !.status = "resolved"]
  <1>1. c \in ConflictRow
    BY DEF Numbered
  <1>2. /\ settled \in ConflictRow /\ settled # c /\ settled.status = "resolved"
        /\ settled.about = c.about /\ settled.field = c.field /\ settled.nth = c.nth
    BY <1>1 DEF ConflictRow
  <1> HIDE DEF settled
  <1>3. n.conflicts = (d.conflicts \ {c}) \cup {settled}
    BY DEF settled
  <1>4. settled \notin d.conflicts
    BY <1>2 DEF Numbered, OneOpen
  <1>5. ASSUME NEW a \in Row \cup EdgeKey, NEW f \in Field
        PROVE  /\ IsFiniteSet(Conflicts(n, a, f))
               /\ Cardinality(Conflicts(n, a, f)) = Cardinality(Conflicts(d, a, f))
    <2> DEFINE old == Conflicts(d, a, f)
    <2>1. IsFiniteSet(old) /\ Cardinality(old) \in Nat
      BY FS_CardinalityType DEF Numbered
    <2>2. CASE c.about = a /\ c.field = f
      <3>1. Conflicts(n, a, f) = (old \ {c}) \cup {settled} /\ c \in old
        BY <1>2, <1>3, <2>2 DEF Conflicts
      <3>2. settled \notin old \ {c}
        BY <1>4 DEF Conflicts
      <3> HIDE DEF old
      <3>3. IsFiniteSet(old \ {c}) /\ Cardinality(old \ {c}) = Cardinality(old) - 1
        BY <2>1, <3>1, FS_RemoveElement
      <3>4. /\ IsFiniteSet((old \ {c}) \cup {settled})
            /\ Cardinality((old \ {c}) \cup {settled}) = Cardinality(old \ {c}) + 1
        BY <3>2, <3>3, FS_AddElement
      <3>5. Cardinality((old \ {c}) \cup {settled}) = Cardinality(old)
        BY <2>1, <3>3, <3>4
      <3>6. QED
        BY <3>1, <3>4, <3>5 DEF old
    <2>3. CASE ~ (c.about = a /\ c.field = f)
      <3>1. Conflicts(n, a, f) = old
        BY <1>2, <1>3, <2>3 DEF Conflicts
      <3>2. QED
        BY <2>1, <3>1
    <2>4. QED
      BY <2>2, <2>3
  <1>6. n.conflicts \subseteq ConflictRow
    BY <1>2, <1>3 DEF Numbered
  <1>7. ASSUME NEW x \in n.conflicts
        PROVE  x.nth <= Cardinality(Conflicts(n, x.about, x.field))
    <2>1. x.about \in Row \cup EdgeKey /\ x.field \in Field
      BY <1>6 DEF ConflictRow
    <2>2. Cardinality(Conflicts(n, x.about, x.field)) = Cardinality(Conflicts(d, x.about, x.field))
      BY <1>5, <2>1
    <2>3. x.nth <= Cardinality(Conflicts(d, x.about, x.field))
      BY <1>2, <1>3 DEF Numbered
    <2>4. QED
      BY <2>2, <2>3
  <1>8. OneOpen(n)
    <2> SUFFICES ASSUME NEW y \in n.conflicts, NEW x \in n.conflicts,
                        y.about = x.about, y.field = x.field,
                        y.nth = x.nth \/ {y.status, x.status} = {"open"}
                 PROVE  y = x
      BY DEF OneOpen
    <2>1. CASE y \in d.conflicts /\ x \in d.conflicts
      BY <2>1 DEF Numbered, OneOpen
    <2>2. CASE y = settled /\ x \in d.conflicts \ {c}
      BY <1>2, <2>2 DEF Numbered, OneOpen
    <2>3. CASE x = settled /\ y \in d.conflicts \ {c}
      BY <1>2, <2>3 DEF Numbered, OneOpen
    <2>4. QED
      BY <1>3, <2>1, <2>2, <2>3
  <1>9. ConflictsKept(d, n)
    BY <1>2, <1>3 DEF ConflictsKept
  <1>10. \A x \in n.conflicts : x.about \in Row /\ x.status = "open" => x.field = "release_year"
    BY <1>2, <1>3 DEF Numbered
  <1>11. QED
    BY <1>5, <1>6, <1>7, <1>8, <1>9, <1>10 DEF Numbered

\* The three loaders that open conflicts.
LEMMA SpineOpens ==
    ASSUME NEW d, NEW sl \in Slice, NEW fd, Rows(d.versions) \subseteq Row
    PROVE  Opens(d, SpineConflicts(d, sl, fd))
  <1>1. ASSUME NEW x \in SpineConflicts(d, sl, fd)
        PROVE  /\ x.about \in Row /\ x.field = "release_year" /\ x.status = "open"
               /\ x = NewConflict(d, x.about, "release_year", "open")
               /\ ~ OpenConflict(d, x.about, "release_year")
    <2>1. PICK v \in SeedVersions :
                  /\ x = NewConflict(d, Target(d, sl, v), "release_year", "open")
                  /\ ~ OpenConflict(d, Target(d, sl, v), "release_year")
      BY DEF SpineConflicts
    <2>2. Target(d, sl, v) \in Row
      BY TargetIsRow
    <2>3. x.about = Target(d, sl, v) /\ x.field = "release_year" /\ x.status = "open"
      BY <2>1 DEF NewConflict
    <2>4. QED
      BY <2>1, <2>2, <2>3
  <1>2. QED
    BY <1>1 DEF Opens, Field

LEMMA MovieOpens ==
    ASSUME NEW d, NEW fd, Rows(d.versions) \subseteq Row
    PROVE  Opens(d, MovieConflicts(d, fd))
  <1> DEFINE added == MovieConflicts(d, fd)
  <1>1. ASSUME NEW r \in Enriched(d, fd), NEW f \in {"release_year", "original_language"},
               NEW x \in MovieConflict(d, fd, r, f)
        PROVE  /\ x.about = r /\ x.field = f /\ x.status \in {"open", "resolved"}
               /\ x = NewConflict(d, r, f, x.status)
               /\ ~ OpenConflict(d, r, f)
               /\ \A y \in MovieConflict(d, fd, r, f) : y = x
               /\ x.status = "open" => f = "release_year"
    <2> DEFINE obs == IF f = "release_year"
                      THEN <<[value |-> d.versions[r].year], [value |-> fd.movies[r[1]].year]>>
                      ELSE <<[value |-> Language[r[1]]], [value |-> fd.movies[r[1]].language]>>
               status == ResolveField(f, obs)
    <2>1. /\ MovieConflict(d, fd, r, f) = {NewConflict(d, r, f, status)}
          /\ status # "none" /\ ~ AnyConflict(d, r, f)
      BY DEF MovieConflict
    <2>2. status \in {"none", "open", "resolved"} /\ (status = "open" => f = "release_year")
      BY DEF ResolveField, Strategy
    <2> HIDE DEF status
    <2>3. x = NewConflict(d, r, f, status)
      BY <2>1
    <2>4. x.about = r /\ x.field = f /\ x.status = status
      BY <2>3 DEF NewConflict
    <2>5. ~ OpenConflict(d, r, f)
      BY <2>1 DEF AnyConflict, OpenConflict
    <2>6. QED
      BY <2>1, <2>2, <2>3, <2>4, <2>5
  <1>2. \A x \in added : \E r \in Enriched(d, fd), f \in {"release_year", "original_language"} :
            x \in MovieConflict(d, fd, r, f)
    BY DEF MovieConflicts
  <1>3. Enriched(d, fd) \subseteq Row
    BY DEF Enriched
  <1> HIDE DEF added
  <1>4. \A x \in added :
            /\ x.about \in Row /\ x.field \in Field /\ x.status \in {"open", "resolved"}
            /\ x = NewConflict(d, x.about, x.field, x.status)
            /\ ~ OpenConflict(d, x.about, x.field)
            /\ x.status = "open" => x.field = "release_year"
    BY <1>1, <1>2, <1>3 DEF Field
  <1>5. ASSUME NEW x \in added, NEW y \in added, x.about = y.about, x.field = y.field
        PROVE  x = y
    BY <1>1, <1>2, <1>5
  <1>6. Opens(d, added)
    BY <1>4, <1>5 DEF Opens
  <1>7. QED
    BY <1>6 DEF added

LEMMA RuleOpens ==
    ASSUME NEW d, NEW fd, Rows(d.edges) \subseteq EdgeKey
    PROVE  Opens(d, RuleConflicts(d))
  <1>1. ASSUME NEW x \in RuleConflicts(d)
        PROVE  /\ x.about \in EdgeKey /\ x.field = "edge_type" /\ x.status = "open"
               /\ x = NewConflict(d, x.about, "edge_type", "open")
               /\ ~ OpenConflict(d, x.about, "edge_type")
    <2>1. PICK e \in Rows(d.edges) :
                  x = NewConflict(d, e, "edge_type", "open") /\ ~ AnyConflict(d, e, "edge_type")
      BY DEF RuleConflicts
    <2>2. x.about = e /\ x.field = "edge_type" /\ x.status = "open"
      BY <2>1 DEF NewConflict
    <2>3. ~ OpenConflict(d, e, "edge_type")
      BY <2>1 DEF AnyConflict, OpenConflict
    <2>4. QED
      BY <2>1, <2>2, <2>3
  <1>2. Row \cap EdgeKey = {}
    BY DEF Row, EdgeKey
  <1>3. QED
    BY <1>1, <1>2 DEF Opens, Field

----------------------------------------------------------------------------
(* Every transaction, and the invariant.                                   *)

WorksOK(d) ==
    /\ Rows(d.works) \subseteq WorkKeys
    /\ \A w \in Rows(d.works) : d.works[w] \in WorkRow

Sound(d) ==
    /\ Shaped(d)
    /\ WorksOK(d) /\ VersionsOK(d) /\ EdgesOK(d) /\ Numbered(d)
    /\ d.titles \subseteq TitleKey
    /\ Rows(d.cast) \subseteq Rows(d.versions)

LEMMA EmptySound == Sound(EmptyDb) /\ IntegrityOK(EmptyDb)
  <1>1. Rows(<<>>) = {}
    BY DEF Rows
  <1>2. Shaped(EmptyDb)
    BY DEF Shaped, EmptyDb
  <1>3. /\ Rows(EmptyDb.works) = {} /\ Rows(EmptyDb.versions) = {} /\ Rows(EmptyDb.edges) = {}
        /\ Rows(EmptyDb.candidates) = {}
        /\ EmptyDb.conflicts = {} /\ EmptyDb.titles = {} /\ Rows(EmptyDb.cast) = {}
    BY <1>1 DEF EmptyDb
  <1>4. WorksOK(EmptyDb) /\ VersionsOK(EmptyDb)
    BY <1>3 DEF WorksOK, VersionsOK, ReviewedApart
  <1>5. EdgesOK(EmptyDb)
    BY <1>3 DEF EdgesOK, Evidence, ConfirmedEdges
  <1>6. Numbered(EmptyDb)
    <2>1. \A a, f : Conflicts(EmptyDb, a, f) = {}
      BY <1>3 DEF Conflicts
    <2>2. QED
      BY <1>3, <2>1, FS_EmptySet DEF Numbered, OneOpen
  <1>7. IntegrityOK(EmptyDb)
    BY <1>3 DEF IntegrityOK, VersionsUnique, EndpointsExist
  <1>8. QED
    BY <1>2, <1>3, <1>4, <1>5, <1>6, <1>7 DEF Sound

LEMMA KeptAsIs == ASSUME NEW d PROVE Kept(d, d)
  BY DEF Kept, CandidatesKept, VersionsKept, EdgesKept, ConflictsKept

LEMMA SameConflicts ==
    ASSUME NEW d, NEW n, Numbered(d), n.conflicts = d.conflicts
    PROVE  Numbered(n) /\ ConflictsKept(d, n)
  <1>1. \A a, f : Conflicts(n, a, f) = Conflicts(d, a, f)
    BY DEF Conflicts
  <1>2. QED
    BY <1>1 DEF Numbered, OneOpen, ConflictsKept

LEMMA SameVersions ==
    ASSUME NEW d, NEW n, VersionsOK(d), n.versions = d.versions
    PROVE  VersionsKept(d, n) /\ VersionsOK(n)
  BY DEF VersionsKept, VersionsOK, ReviewedApart

LEMMA SameEdges ==
    ASSUME NEW d, NEW n, EdgesOK(d), n.edges = d.edges, n.candidates = d.candidates
    PROVE  EdgesKept(d, n) /\ CandidatesKept(d, n) /\ EdgesOK(n)
  BY LoadedEdges

LEMMA SpineKeeps ==
    ASSUME NEW d, NEW sl \in Slice, NEW fd, Sound(d), NEW n, n = IngestSpine(d, sl, fd)
    PROVE  Sound(n) /\ Kept(d, n)
  <1> USE DEF Sound
  <1>1. VersionsKept(d, n) /\ VersionsOK(n)
    BY SpineVersions
  <1>2. EdgesKept(d, n) /\ CandidatesKept(d, n) /\ EdgesOK(n)
    BY SpineChanges, LoadedEdges
  <1>3. Numbered(n) /\ ConflictsKept(d, n)
    <2>1. Rows(d.versions) \subseteq Row
      BY DEF VersionsOK
    <2>2. Opens(d, SpineConflicts(d, sl, fd))
      BY <2>1, SpineOpens
    <2>3. n.conflicts = d.conflicts \cup SpineConflicts(d, sl, fd)
      BY SpineChanges
    <2>4. QED
      BY <2>2, <2>3, AddConflicts
  <1>4. WorksOK(n)
    <2>1. ASSUME NEW w \in WorkKeys PROVE UpsertWork(d, sl, w) \in WorkRow
      <3> DEFINE anchor == Anchored(sl, w)
                 source == SliceSources(anchor)
      <3>1. anchor \in BOOLEAN
        BY DEF Anchored
      <3> HIDE DEF anchor
      <3>2. source \in SUBSET Source
        BY DEF SliceSources, Source
      <3> HIDE DEF source
      <3>3. UpsertWork(d, sl, w) =
                IF w \in Rows(d.works)
                THEN [d.works[w] EXCEPT !.qid = anchor, !.sources = MergeSources(@, source)]
                ELSE [qid |-> anchor, conf |-> IF anchor THEN "HIGH" ELSE "MEDIUM",
                      sources |-> source]
        BY DEF UpsertWork, anchor, source
      <3>4. w \in Rows(d.works) => d.works[w] \in WorkRow
        BY DEF WorksOK
      <3> DEFINE row == UpsertWork(d, sl, w)
      <3>5. /\ w \in Rows(d.works) =>
                 row = [d.works[w] EXCEPT !.qid = anchor, !.sources = @ \cup source]
            /\ w \notin Rows(d.works) =>
                 row = [qid |-> anchor, conf |-> IF anchor THEN "HIGH" ELSE "MEDIUM",
                        sources |-> source]
        BY <3>3 DEF MergeSources
      <3> HIDE DEF row
      <3>6. CASE w \in Rows(d.works)
        <4>1. d.works[w].sources \in SUBSET Source
          BY <3>4, <3>6 DEF WorkRow
        <4>2. row \in WorkRow
          BY <3>1, <3>2, <3>4, <3>5, <3>6, <4>1 DEF WorkRow
        <4>3. QED
          BY <4>2 DEF row
      <3>7. CASE w \notin Rows(d.works)
        <4>1. row \in WorkRow
          BY <3>1, <3>2, <3>5, <3>7 DEF WorkRow
        <4>2. QED
          BY <4>1 DEF row
      <3>8. QED
        BY <3>6, <3>7
    <2>2. Rows(n.works) = Rows(d.works) \cup WorkKeys
          /\ \A w \in WorkKeys : n.works[w] = UpsertWork(d, sl, w)
      BY SpineChanges
    <2>3. QED
      BY <2>1, <2>2 DEF WorksOK
  <1>5. /\ Shaped(n) /\ n.titles = d.titles /\ n.cast = d.cast
        /\ Rows(d.versions) \subseteq Rows(n.versions)
    BY SpineChanges
  <1>6. QED
    BY <1>1, <1>2, <1>3, <1>4, <1>5 DEF Kept

LEMMA TitleOfRow == ASSUME NEW r \in Row PROVE Title[r[1]] \in Titles
  BY CatalogAssumption DEF Row

LEMMA EnrichKeeps ==
    ASSUME NEW d, NEW fd, NEW last, Sound(d), NEW n, n = EnrichTmdb(d, fd, last)
    PROVE  Sound(n) /\ Kept(d, n)
  <1> USE DEF Sound
  <1>1. VersionsKept(d, n) /\ VersionsOK(n)
    <2>1. /\ Rows(n.versions) = Rows(d.versions)
          /\ \A r \in Rows(d.versions) :
                n.versions[r] = d.versions[r] \/ n.versions[r] = [d.versions[r] EXCEPT !.imdb = TRUE]
      BY EnrichChanges
    <2>2. QED
      BY <2>1, OtherVersions
  <1>2. EdgesKept(d, n) /\ CandidatesKept(d, n) /\ EdgesOK(n)
    BY EnrichChanges, SameEdges
  <1>3. Numbered(n) /\ ConflictsKept(d, n)
    <2>1. Rows(d.versions) \subseteq Row
      BY DEF VersionsOK
    <2>2. Opens(d, MovieConflicts(d, fd))
      BY <2>1, MovieOpens
    <2>3. n.conflicts = d.conflicts \cup MovieConflicts(d, fd)
      BY EnrichChanges
    <2>4. QED
      BY <2>2, <2>3, AddConflicts
  <1>4. WorksOK(n)
    BY EnrichChanges DEF WorksOK
  <1>5. Rows(n.cast) \subseteq Rows(n.versions)
    BY EnrichChanges DEF Enriched
  <1>6. /\ Shaped(n) /\ d.titles \subseteq n.titles
        /\ n.titles = d.titles \cup UNION {MovieTitles(d, r, last) : r \in Enriched(d, fd)}
    BY EnrichChanges
  <1>7. n.titles \subseteq TitleKey
    <2> SUFFICES ASSUME NEW r \in Enriched(d, fd), NEW t \in MovieTitles(d, r, last)
                 PROVE  t \in TitleKey
      BY <1>6
    <2>1. Rows(d.versions) \subseteq Row /\ r \in Row
      BY DEF VersionsOK, Enriched
    <2>2. \A db_, s : TitleKind(db_, s) \in {"canonical", "dub"}
      BY DEF TitleKind
    <2>3. QED
      BY <2>1, <2>2, TitleOfRow DEF MovieTitles, Siblings, TitleKey
  <1>8. QED
    BY <1>1, <1>2, <1>3, <1>4, <1>5, <1>6, <1>7 DEF Kept

LEMMA IndexKeeps ==
    ASSUME NEW d, NEW last, Sound(d), NEW n, n = LoadAkas(d, last) \/ n = RekeyTitles(d)
    PROVE  Sound(n) /\ Kept(d, n)
  <1> USE DEF Sound
  <1>1. /\ Shaped(n) /\ n.works = d.works /\ n.versions = d.versions /\ n.edges = d.edges
        /\ n.candidates = d.candidates /\ n.conflicts = d.conflicts /\ n.cast = d.cast
        /\ d.titles \subseteq n.titles
    BY IndexChanges
  <1>2. (VersionsKept(d, n) /\ VersionsOK(n)) /\ (Numbered(n) /\ ConflictsKept(d, n))
    BY <1>1, SameVersions, SameConflicts
  <1>3. EdgesKept(d, n) /\ CandidatesKept(d, n) /\ EdgesOK(n)
    BY <1>1, SameEdges
  <1>4. n.titles \subseteq TitleKey
    <2> SUFFICES ASSUME NEW t \in n.titles \ d.titles PROVE t \in TitleKey
      OBVIOUS
    <2>1. PICK r \in Rows(d.versions) : \/ t \in AkaTitles(d, r, last)
                                        \/ t = <<r, d.versions[r].title, "canonical">>
      BY IndexChanges
    <2>2. Rows(d.versions) \subseteq Row /\ d.versions[r] \in VersionRow
      BY DEF VersionsOK
    <2>3. CASE t \in AkaTitles(d, r, last)
      <3>1. \A db_, s : TitleKind(db_, s) \in {"canonical", "dub"}
        BY DEF TitleKind
      <3>2. QED
        BY <2>2, <2>3, <3>1, TitleOfRow DEF AkaTitles, Siblings, TitleKey
    <2>4. CASE t = <<r, d.versions[r].title, "canonical">>
      BY <2>2, <2>4 DEF VersionRow, TitleKey
    <2>5. QED
      BY <2>1, <2>3, <2>4
  <1>5. QED
    BY <1>1, <1>2, <1>3, <1>4 DEF Kept, WorksOK

LEMMA BuildKeeps ==
    ASSUME NEW d, Sound(d), IntegrityOK(d), NEW n, n = BuildGraph(d)
    PROVE  Sound(n) /\ Kept(d, n)
  <1> USE DEF Sound
  <1>1. VersionsKept(d, n) /\ VersionsOK(n)
    BY BuildChanges, SameVersions
  <1>2. EdgesKept(d, n) /\ CandidatesKept(d, n) /\ EdgesOK(n)
    BY BuildChanges, LoadedEdges
  <1>3. Numbered(n) /\ ConflictsKept(d, n)
    <2>1. Rows(d.edges) \subseteq EdgeKey
      BY DEF IntegrityOK, EdgeShapeOK
    <2>2. Opens(d, RuleConflicts(d))
      BY <2>1, RuleOpens
    <2>3. n.conflicts = d.conflicts \cup RuleConflicts(d)
      BY BuildChanges
    <2>4. QED
      BY <2>2, <2>3, AddConflicts
  <1>4. /\ Shaped(n) /\ n.titles = d.titles /\ n.cast = d.cast
        /\ n.works = d.works /\ n.versions = d.versions
    BY BuildChanges
  <1>5. QED
    BY <1>1, <1>2, <1>3, <1>4 DEF Kept, WorksOK

LEMMA BindingsAreRows ==
    ASSUME NEW d, Rows(d.versions) \subseteq Row, NEW end
    PROVE  Bindings(d, end) \subseteq Row \cup {Null}
  BY DEF Bindings, Hits, TruthVersions

LEMMA ExtractionKeeps ==
    ASSUME NEW d, Sound(d), NEW bound,
           \A p \in artifact : bound[p.src] \in Bindings(d, p.src) /\ bound[p.dst] \in Bindings(d, p.dst),
           NEW n, n = LoadCandidates(d, artifact, bound)
    PROVE  Sound(n) /\ Kept(d, n)
  <1> USE DEF Sound
  <1>1. \A p \in artifact : bound[p.src] \in Row \cup {Null} /\ bound[p.dst] \in Row \cup {Null}
    BY BindingsAreRows DEF VersionsOK
  <1>2. /\ Shaped(n) /\ n.titles = d.titles /\ n.cast = d.cast /\ n.conflicts = d.conflicts
        /\ n.works = d.works /\ n.versions = d.versions /\ n.edges = d.edges
        /\ Rows(d.candidates) \subseteq Rows(n.candidates)
        /\ \A k \in Rows(d.candidates) : n.candidates[k] = d.candidates[k]
        /\ \A k \in Rows(n.candidates) \ Rows(d.candidates) :
              \E p \in artifact :
                 n.candidates[k] = [src |-> bound[p.src],
                                    dst |-> IF bound[p.dst] = bound[p.src] THEN Null
                                            ELSE bound[p.dst],
                                    status |-> "proposed", edge |-> Null]
    BY LoadChanges
  <1>3. ASSUME NEW k \in Rows(n.candidates) \ Rows(d.candidates)
        PROVE  n.candidates[k] \in CandidateRow /\ n.candidates[k].status = "proposed"
    <2>1. PICK p \in artifact :
             n.candidates[k] = [src |-> bound[p.src],
                                dst |-> IF bound[p.dst] = bound[p.src] THEN Null ELSE bound[p.dst],
                                status |-> "proposed", edge |-> Null]
      BY <1>2
    <2>2. QED
      BY <1>1, <2>1 DEF CandidateRow
  <1>4. EdgesKept(d, n) /\ CandidatesKept(d, n) /\ EdgesOK(n)
    BY <1>2, <1>3, ExtractedEdges
  <1>5. (VersionsKept(d, n) /\ VersionsOK(n)) /\ (Numbered(n) /\ ConflictsKept(d, n))
    BY <1>2, SameVersions, SameConflicts
  <1>6. QED
    BY <1>2, <1>4, <1>5 DEF Kept, WorksOK

LEMMA PromoteKeeps ==
    ASSUME NEW d, Sound(d), NEW key \in Proposed(d), NEW e, NEW n, n = Promote(d, key, e),
           IntegrityOK(n)
    PROVE  Sound(n) /\ Kept(d, n)
  <1>0. /\ Shaped(d) /\ WorksOK(d) /\ VersionsOK(d) /\ EdgesOK(d) /\ Numbered(d)
        /\ d.titles \subseteq TitleKey /\ Rows(d.cast) \subseteq Rows(d.versions)
    BY DEF Sound
  <1>1. d.candidates[key] \in CandidateRow /\ (e \in Rows(d.edges) => d.edges[e] \in EdgeRow)
    BY <1>0 DEF Proposed, EdgesOK
  <1>2. /\ Shaped(n) /\ n.titles = d.titles /\ n.cast = d.cast /\ n.conflicts = d.conflicts
        /\ n.works = d.works /\ n.versions = d.versions
        /\ Rows(n.edges) = Rows(d.edges) \cup {e}
        /\ n.candidates[key] = [src |-> d.candidates[key].src, dst |-> d.candidates[key].dst,
                                status |-> "confirmed", edge |-> e]
    <2>1. Shaped(d)
      BY <1>0
    <2>2. QED
      BY <1>1, <2>1, PromoteChanges
  <1>3. e \in EdgeKey
    BY <1>2 DEF IntegrityOK, EdgeShapeOK
  <1>4. EdgesKept(d, n) /\ CandidatesKept(d, n) /\ EdgesOK(n)
    BY <1>0, <1>3, PromotedEdges
  <1>5. (VersionsKept(d, n) /\ VersionsOK(n)) /\ (Numbered(n) /\ ConflictsKept(d, n))
    BY <1>0, <1>2, SameVersions, SameConflicts
  <1>6. QED
    BY <1>0, <1>2, <1>4, <1>5 DEF Kept, Sound, WorksOK

LEMMA RejectKeeps ==
    ASSUME NEW d, Sound(d), NEW key \in Proposed(d), NEW n, n = Reject(d, key)
    PROVE  Sound(n) /\ Kept(d, n)
  <1>0. /\ Shaped(d) /\ WorksOK(d) /\ VersionsOK(d) /\ EdgesOK(d) /\ Numbered(d)
        /\ d.titles \subseteq TitleKey /\ Rows(d.cast) \subseteq Rows(d.versions)
    BY DEF Sound
  <1>1. d.candidates[key] \in CandidateRow
    BY <1>0 DEF Proposed, EdgesOK
  <1>2. /\ Shaped(n) /\ n.titles = d.titles /\ n.cast = d.cast /\ n.conflicts = d.conflicts
        /\ n.works = d.works /\ n.versions = d.versions
        /\ n.candidates[key] = [src |-> d.candidates[key].src, dst |-> d.candidates[key].dst,
                                status |-> "rejected", edge |-> d.candidates[key].edge]
    <2>1. Shaped(d)
      BY <1>0
    <2>2. QED
      BY <1>1, <2>1, RejectChanges
  <1>3. EdgesKept(d, n) /\ CandidatesKept(d, n) /\ EdgesOK(n)
    BY <1>0, RejectedEdges
  <1>4. (VersionsKept(d, n) /\ VersionsOK(n)) /\ (Numbered(n) /\ ConflictsKept(d, n))
    BY <1>0, <1>2, SameVersions, SameConflicts
  <1>5. QED
    BY <1>0, <1>2, <1>3, <1>4 DEF Kept, Sound, WorksOK

LEMMA VerifyKeeps ==
    ASSUME NEW d, Sound(d), NEW n, NEW chosen,
           n = VerifyMediumEdges(d, chosen) \/ n = VerifyMediumVersions(d, chosen)
    PROVE  Sound(n) /\ Kept(d, n)
  <1> USE DEF Sound
  <1>1. /\ Shaped(n) /\ n.titles = d.titles /\ n.cast = d.cast /\ n.conflicts = d.conflicts
        /\ n.works = d.works /\ n.candidates = d.candidates
        /\ Rows(n.edges) = Rows(d.edges) /\ Rows(n.versions) = Rows(d.versions)
        /\ \A e \in Rows(d.edges) :
              n.edges[e] = d.edges[e] \/ n.edges[e] = VerifyRow(d.edges[e])
        /\ \A r \in Rows(d.versions) :
              \/ n.versions[r] = d.versions[r]
              \/ r \in MediumVersions(d) /\ n.versions[r] = VerifyRow(d.versions[r])
    BY VerifyChanges
  <1>2. EdgesKept(d, n) /\ CandidatesKept(d, n) /\ EdgesOK(n)
    BY <1>1, VerifiedEdges
  <1>3. VersionsKept(d, n) /\ VersionsOK(n)
    BY <1>1, OtherVersions
  <1>4. Numbered(n) /\ ConflictsKept(d, n)
    BY <1>1, SameConflicts
  <1>5. QED
    BY <1>1, <1>2, <1>3, <1>4 DEF Kept, WorksOK

LEMMA SettleKeeps ==
    ASSUME NEW d, Sound(d), NEW c \in Resolvable(d), NEW y \in Years,
           NEW n, n = ResolveConflict(d, c, y)
    PROVE  Sound(n) /\ Kept(d, n)
  <1> USE DEF Sound
  <1>1. /\ Shaped(n) /\ n.titles = d.titles /\ n.cast = d.cast
        /\ n.works = d.works /\ n.edges = d.edges /\ n.candidates = d.candidates
        /\ n.conflicts = (d.conflicts \ {c}) \cup {[c EXCEPT !.status = "resolved"]}
        /\ Rows(n.versions) = Rows(d.versions)
        /\ \A r \in Rows(d.versions) :
              \/ n.versions[r] = d.versions[r]
              \/ d.versions[r].qid /\ n.versions[r] = [d.versions[r] EXCEPT !.year = y]
    BY ResolveChanges
  <1>2. VersionsKept(d, n) /\ VersionsOK(n)
    BY <1>1, OtherVersions
  <1>3. EdgesKept(d, n) /\ CandidatesKept(d, n) /\ EdgesOK(n)
    BY <1>1, SameEdges
  <1>4. Numbered(n) /\ ConflictsKept(d, n)
    <2>1. c \in d.conflicts /\ c.status = "open"
      BY DEF Resolvable
    <2>2. QED
      BY <1>1, <2>1, SettleConflict
  <1>5. QED
    BY <1>1, <1>2, <1>3, <1>4 DEF Kept, WorksOK

\* The invariant: the inputs are the ones that are given, the tables are sound and
\* PostgreSQL's constraints hold.
CatalogInv ==
    /\ slice \in Slices /\ feed \in Feeds /\ artifact \in Artifacts
    /\ Sound(db) /\ IntegrityOK(db)

LEMMA CommitKeeps ==
    ASSUME CatalogInv, NEW new, Commit(new), IntegrityOK(new) => Sound(new) /\ Kept(db, new)
    PROVE  CatalogInv' /\ Kept(db, db')
  <1>1. CASE IntegrityOK(new)
    <2>1. db' = new /\ Sound(new) /\ Kept(db, new)
      BY <1>1 DEF Commit
    <2>2. QED
      BY <1>1, <2>1 DEF CatalogInv, Commit
  <1>2. CASE ~ IntegrityOK(new)
    <2>1. db' = db
      BY <1>2 DEF Commit
    <2>2. QED
      BY <2>1, KeptAsIs DEF CatalogInv, Commit
  <1>3. QED
    BY <1>1, <1>2

LEMMA InitCatalog == Init => CatalogInv
  BY EmptySound, CatalogRunAssumption DEF Init, CatalogInv

LEMMA CatalogStep ==
    ASSUME CatalogInv, [Next]_vars
    PROVE  CatalogInv' /\ Kept(db, db')
  <1>1. Sound(db) /\ IntegrityOK(db) /\ slice \in Slice
    BY CatalogRunAssumption DEF CatalogInv
  <1>2. CASE EditSlice
    BY <1>2, KeptAsIs, CatalogRunAssumption DEF EditSlice, CatalogInv
  <1>3. CASE FetchSnapshots
    BY <1>3, KeptAsIs, CatalogRunAssumption DEF FetchSnapshots, CatalogInv
  <1>4. CASE RunIngestSpine
    BY <1>1, <1>4, SpineKeeps, CommitKeeps DEF RunIngestSpine
  <1>5. CASE RunEnrichTmdb \/ RunLoadAkas \/ RunRekeyTitles
    BY <1>1, <1>5, EnrichKeeps, IndexKeeps, CommitKeeps DEF RunEnrichTmdb, RunLoadAkas, RunRekeyTitles
  <1>6. CASE RunBuildGraph
    BY <1>1, <1>6, BuildKeeps, CommitKeeps DEF RunBuildGraph
  <1>7. CASE RunExtraction
    <2>1. PICK bound :
             /\ \A end \in ProposedEnds : bound[end] \in Bindings(db, end)
             /\ Commit(LoadCandidates(db, artifact, bound))
      BY <1>7 DEF RunExtraction, TitleBindings
    <2>2. \A p \in artifact : p.src \in ProposedEnds /\ p.dst \in ProposedEnds
      BY DEF ProposedEnds
    <2>3. Sound(LoadCandidates(db, artifact, bound)) /\ Kept(db, LoadCandidates(db, artifact, bound))
      BY <1>1, <2>1, <2>2, ExtractionKeeps
    <2>4. QED
      BY <2>1, <2>3, CommitKeeps
  <1>8. CASE Confirm
    <2>1. PICK k \in Proposed(db) : \E e : Commit(Promote(db, k, e))
      BY <1>8 DEF Confirm
    <2>2. PICK e : Commit(Promote(db, k, e))
      BY <2>1
    <2> DEFINE new == Promote(db, k, e)
    <2>3. IntegrityOK(new) => Sound(new) /\ Kept(db, new)
      BY <1>1, PromoteKeeps
    <2>4. QED
      BY <2>2, <2>3, CommitKeeps
  <1>9. CASE Dismiss
    BY <1>1, <1>9, RejectKeeps, CommitKeeps DEF Dismiss
  <1>10. CASE VerifyEdges
    BY <1>1, <1>10, VerifyKeeps, CommitKeeps DEF VerifyEdges
  <1>11. CASE VerifyVersions
    BY <1>1, <1>11, VerifyKeeps, CommitKeeps DEF VerifyVersions
  <1>12. CASE Settle
    <2>1. PICK c \in Resolvable(db), y \in Years : Commit(ResolveConflict(db, c, y))
      BY <1>12 DEF Settle
    <2>2. Sound(ResolveConflict(db, c, y)) /\ Kept(db, ResolveConflict(db, c, y))
      BY <1>1, SettleKeeps
    <2>3. QED
      BY <2>1, <2>2, CommitKeeps
  <1>13. CASE UNCHANGED vars
    BY <1>13, KeptAsIs DEF vars, CatalogInv
  <1>14. QED
    BY <1>2, <1>3, <1>4, <1>5, <1>6, <1>7, <1>8, <1>9, <1>10, <1>11, <1>12, <1>13 DEF Next

\* Every state the commands reach satisfies the invariant.
LEMMA CatalogSound == Spec => []CatalogInv
  BY InitCatalog, CatalogStep, PTL DEF Spec

----------------------------------------------------------------------------
(* The franchise of a work: the rounds reach a fixed point.                *)

LEMMA SmallestOfNats ==
    ASSUME NEW S \in SUBSET Nat, S # {}
    PROVE  \E m \in S : \A k \in S : m <= k
  <1>1. PICK m \in S : \A k \in S : <<k, m>> \notin OpToRel(<, Nat)
    BY NatLessThanWellFounded, WFMin
  <1>2. \A k \in S : ~(k < m)
    BY <1>1 DEF OpToRel
  <1>3. QED
    BY <1>2

\* The rounds from w over the first k numbers.
RoundsUpTo(d, w, k, f) ==
    f = [n \in 0 .. k |-> IF n = 0 THEN {w} ELSE Widen(d, f[n - 1])]

LEMMA RoundsExist ==
    ASSUME NEW d, NEW w, NEW n \in Nat
    PROVE  \E f : RoundsUpTo(d, w, n, f)
  <1> DEFINE P(k) == \E f : RoundsUpTo(d, w, k, f)
             B == {k \in Nat : ~P(k)}
  <1> SUFFICES ASSUME ~P(n) PROVE FALSE
    OBVIOUS
  <1>1. B \in SUBSET Nat /\ B # {}
    OBVIOUS
  <1>2. PICK m \in B : \A k \in B : m <= k
    <2> HIDE DEF B
    <2> QED BY <1>1, SmallestOfNats
  <1>3. m # 0
    <2>1. RoundsUpTo(d, w, 0, [k \in 0 .. 0 |-> {w}])
      BY DEF RoundsUpTo
    <2>2. QED
      BY <2>1
  <1>4. m - 1 \in Nat /\ m - 1 \notin B
    BY <1>2, <1>3
  <1>5. PICK h : RoundsUpTo(d, w, m - 1, h)
    BY <1>4
  <1> DEFINE g == [k \in 0 .. m |-> IF k = m THEN Widen(d, h[m - 1]) ELSE h[k]]
  <1>6. ASSUME NEW k \in 0 .. m
        PROVE  g[k] = IF k = 0 THEN {w} ELSE Widen(d, g[k - 1])
    <2>1. CASE k = m
      BY <2>1, <1>3, <1>4
    <2>2. CASE k # m
      <3>1. k \in 0 .. m - 1 /\ (k # 0 => k - 1 \in 0 .. m - 1)
        BY <2>2
      <3>2. h[k] = IF k = 0 THEN {w} ELSE Widen(d, h[k - 1])
        BY <3>1, <1>5 DEF RoundsUpTo
      <3>3. QED
        BY <3>1, <3>2
    <2>3. QED
      BY <2>1, <2>2
  <1>7. RoundsUpTo(d, w, m, g)
    <2>1. g = [k \in 0 .. m |-> g[k]]
      OBVIOUS
    <2> HIDE DEF g
    <2>2. QED
      BY <2>1, <1>6 DEF RoundsUpTo
  <1>8. QED
    BY <1>2, <1>7

\* The number of rounds is a natural number, since the slice has finitely many works.
LEMMA FewWorks == Cardinality(WorkKeys) \in Nat
  BY FS_CardinalityType, CatalogAssumption

LEMMA RoundsAreRounds ==
    ASSUME NEW d, NEW w
    PROVE  RoundsUpTo(d, w, Cardinality(WorkKeys), Rounds(d, w))
  <1>1. PICK f : RoundsUpTo(d, w, Cardinality(WorkKeys), f)
    BY FewWorks, RoundsExist
  <1>2. QED
    BY <1>1 DEF RoundsUpTo, Rounds

\* Sequels join works.
SequelsJoinWorks(d) == \A e \in SequelEdges(d) : {e[2], e[3]} \subseteq WorkKeys

Closed(d, S) == Widen(d, S) \subseteq S

LEMMA RoundsGrow ==
    ASSUME NEW d, NEW w \in WorkKeys, SequelsJoinWorks(d), NEW n \in 0 .. Cardinality(WorkKeys)
    PROVE  /\ w \in Rounds(d, w)[n]
           /\ Rounds(d, w)[n] \subseteq WorkKeys
           /\ Closed(d, Rounds(d, w)[n]) \/ Cardinality(Rounds(d, w)[n]) > n
           /\ \A S : w \in S /\ Closed(d, S) => Rounds(d, w)[n] \subseteq S
  <1> DEFINE N == Cardinality(WorkKeys)
             R(k) == Rounds(d, w)[k]
             P(k) == /\ w \in R(k)
                     /\ R(k) \subseteq WorkKeys
                     /\ Closed(d, R(k)) \/ Cardinality(R(k)) > k
                     /\ \A S : w \in S /\ Closed(d, S) => R(k) \subseteq S
             B == {k \in 0 .. N : ~P(k)}
  <1>0. N \in Nat
    BY FewWorks
  <1> SUFFICES ASSUME ~P(n) PROVE FALSE
    OBVIOUS
  <1>1. B \in SUBSET Nat /\ B # {}
    BY <1>0
  <1>2. PICK m \in B : \A k \in B : m <= k
    <2> HIDE DEF B
    <2> QED BY <1>1, SmallestOfNats
  <1>3. R(0) = {w}
    BY <1>0, RoundsAreRounds DEF RoundsUpTo
  <1>4. P(0)
    <2>1. Cardinality({w}) = 1
      BY FS_Singleton
    <2>2. QED
      BY <1>3, <2>1
  <1>5. m # 0 /\ m - 1 \in 0 .. N
    BY <1>0, <1>2, <1>4
  <1>6. P(m - 1)
    BY <1>2, <1>5
  <1> DEFINE Q == R(m - 1)
  <1>7. R(m) = Widen(d, Q)
    BY <1>0, <1>2, <1>5, RoundsAreRounds DEF RoundsUpTo
  <1>8. Q \subseteq Widen(d, Q) /\ Widen(d, Q) \subseteq WorkKeys
    BY <1>6 DEF Widen, SequelsJoinWorks
  <1>9. \A S : w \in S /\ Closed(d, S) => Widen(d, Q) \subseteq S
    <2> SUFFICES ASSUME NEW S, w \in S, Closed(d, S) PROVE Widen(d, Q) \subseteq S
      OBVIOUS
    <2>1. Q \subseteq S
      BY <1>6
    <2>2. Widen(d, Q) \subseteq Widen(d, S)
      <3> HIDE DEF Q
      <3> QED BY <2>1 DEF Widen
    <2>3. QED
      BY <2>2 DEF Closed
  <1>10. Closed(d, Widen(d, Q)) \/ Cardinality(Widen(d, Q)) > m
    <2>1. CASE Closed(d, Q)
      <3>1. Widen(d, Q) = Q
        BY <2>1, <1>8 DEF Closed
      <3>2. QED
        BY <2>1, <3>1
    <2>2. CASE ~ Closed(d, Q)
      <3>1. Widen(d, Q) # Q
        BY <2>2 DEF Closed
      <3>2. IsFiniteSet(Widen(d, Q))
        BY <1>8, FS_Subset, CatalogAssumption
      <3> HIDE DEF Q
      <3>3. /\ IsFiniteSet(Q) /\ Cardinality(Q) <= Cardinality(Widen(d, Q))
            /\ Cardinality(Q) = Cardinality(Widen(d, Q)) => Q = Widen(d, Q)
        BY <3>2, <1>8, FS_Subset
      <3>4. Cardinality(Q) > m - 1
        BY <2>2, <1>6 DEF Q
      <3>5. Cardinality(Q) \in Nat /\ Cardinality(Widen(d, Q)) \in Nat /\ m \in Nat
        BY <3>2, <3>3, <1>2, FS_CardinalityType
      <3>6. QED
        BY <3>1, <3>3, <3>4, <3>5
    <2>3. QED
      BY <2>1, <2>2
  <1>11. P(m)
    <2> HIDE DEF Q
    <2> QED BY <1>6, <1>7, <1>8, <1>9, <1>10 DEF Q
  <1>12. QED
    BY <1>2, <1>11

\* The franchise is the least set that holds the work and all that is joined to one of it.
LEMMA FranchiseIsClosure ==
    ASSUME NEW d, NEW w \in WorkKeys, SequelsJoinWorks(d)
    PROVE  /\ w \in FranchiseWorks(d, w)
           /\ FranchiseWorks(d, w) \subseteq WorkKeys
           /\ Closed(d, FranchiseWorks(d, w))
           /\ \A S : w \in S /\ Closed(d, S) => FranchiseWorks(d, w) \subseteq S
  <1> DEFINE N == Cardinality(WorkKeys)
             F == Rounds(d, w)[N]
  <1>1. N \in Nat /\ N \in 0 .. N
    BY FewWorks
  <1>2. /\ w \in F
        /\ F \subseteq WorkKeys
        /\ Closed(d, F) \/ Cardinality(F) > N
        /\ \A S : w \in S /\ Closed(d, S) => F \subseteq S
    BY <1>1, RoundsGrow
  <1>3. IsFiniteSet(WorkKeys)
    BY CatalogAssumption
  <1>4. Cardinality(F) <= N /\ Cardinality(F) \in Nat
    <2> HIDE DEF F
    <2> QED BY <1>2, <1>3, FS_Subset, FS_CardinalityType
  <1>5. QED
    BY <1>1, <1>2, <1>4 DEF FranchiseWorks

\* A franchise is the same from each of its works.
LEMMA FranchisesAgree ==
    ASSUME NEW d, NEW w \in WorkKeys, SequelsJoinWorks(d), NEW u \in FranchiseWorks(d, w)
    PROVE  FranchiseWorks(d, u) = FranchiseWorks(d, w)
  <1>1. u \in WorkKeys
    BY FranchiseIsClosure
  <1> DEFINE W == FranchiseWorks(d, w)
             U == FranchiseWorks(d, u)
             Apart == WorkKeys \ U
  <1>2. W \subseteq WorkKeys /\ w \in W /\ Closed(d, W) /\ u \in W
    BY FranchiseIsClosure
  <1>3. U \subseteq WorkKeys /\ u \in U /\ Closed(d, U)
    BY <1>1, FranchiseIsClosure
  <1>4. U \subseteq W
    BY <1>1, <1>2, FranchiseIsClosure
  <1>5. Closed(d, Apart)
    <2> HIDE DEF U
    <2> SUFFICES ASSUME NEW x \in Widen(d, Apart), x \notin Apart PROVE FALSE
      BY DEF Closed
    <2>1. PICK e \in SequelEdges(d) : x \in {e[2], e[3]} /\ {e[2], e[3]} \cap Apart # {}
      BY DEF Widen
    <2>2. x \in U
      BY <2>1 DEF SequelsJoinWorks
    <2>3. {e[2], e[3]} \subseteq U
      BY <2>1, <2>2, <1>3 DEF Closed, Widen
    <2>4. QED
      BY <2>1, <2>3
  <1>6. w \in U
    <2>1. w \in Apart => W \subseteq Apart
      BY <1>5, FranchiseIsClosure
    <2>2. QED
      BY <2>1, <1>2, <1>3
  <1>7. W \subseteq U
    BY <1>3, <1>6, FranchiseIsClosure
  <1>8. QED
    BY <1>4, <1>7

----------------------------------------------------------------------------
(* The spine, run once and again.                                          *)

IsTable(t) == t = [k \in DOMAIN t |-> t[k]]

LEMMA SameTable ==
    ASSUME NEW t, NEW u, IsTable(t), IsTable(u), Rows(t) = Rows(u), \A k \in Rows(t) : t[k] = u[k]
    PROVE  t = u
  BY DEF IsTable, Rows

LEMMA UpsertIsTable == ASSUME NEW t, NEW new PROVE IsTable(Upsert(t, new))
  BY DEF IsTable, Upsert

LEMMA SpineTables ==
    ASSUME NEW d, NEW sl, NEW fd, Shaped(d), NEW n, n = IngestSpine(d, sl, fd)
    PROVE  /\ IsTable(n.works) /\ IsTable(n.versions) /\ IsTable(n.edges)
           /\ Rows(n.edges) = Rows(d.edges) \cup AssertedEdges(d, sl, fd)
  <1>1. /\ \E new : n.works = Upsert(d.works, new)
        /\ \E new : n.versions = Upsert(d.versions, new)
        /\ n.edges = Upsert(d.edges, [e \in AssertedEdges(d, sl, fd) |->
                          [conf |-> "HIGH", verified |-> FALSE, sources |-> {"wikidata"}]])
    BY DEF IngestSpine, Shaped
  <1>2. Rows(n.edges) = Rows(d.edges) \cup AssertedEdges(d, sl, fd)
    BY <1>1 DEF Upsert, Rows
  <1>3. QED
    BY <1>1, <1>2, UpsertIsTable

LEMMA SpineEntries ==
    ASSUME NEW d, NEW sl, NEW fd, Shaped(d), NEW n, n = IngestSpine(d, sl, fd), NEW v \in SeedVersions
    PROVE  /\ Target(d, sl, v) \in Rows(n.versions)
           /\ \E u \in SeedVersions :
                 /\ Target(d, sl, u) = Target(d, sl, v)
                 /\ n.versions[Target(d, sl, v)] = UpsertVersion(d, sl, fd, u)
  <1> DEFINE target == [u \in SeedVersions |-> Target(d, sl, u)]
             targets == {target[u] : u \in SeedVersions}
             entry(r) == CHOOSE u \in SeedVersions : target[u] = r
             rows == [r \in targets |-> UpsertVersion(d, sl, fd, entry(r))]
             t == target[v]
  <1>1. n.versions = Upsert(d.versions, rows)
    BY DEF IngestSpine, Shaped
  <1>2. t \in targets /\ \A u \in SeedVersions : target[u] = Target(d, sl, u)
    OBVIOUS
  <1>3. entry(t) \in SeedVersions /\ target[entry(t)] = t
    OBVIOUS
  <1>4. DOMAIN rows = targets /\ rows[t] = UpsertVersion(d, sl, fd, entry(t))
    BY <1>2
  <1> HIDE DEF rows, targets, entry, target, t
  <1>5. t \in Rows(n.versions) /\ n.versions[t] = UpsertVersion(d, sl, fd, entry(t))
    BY <1>1, <1>2, <1>4 DEF Upsert, Rows
  <1>6. t = Target(d, sl, v) /\ Target(d, sl, entry(t)) = t
    BY <1>2, <1>3 DEF t
  <1>7. QED
    BY <1>3, <1>5, <1>6

\* What an upsert writes whatever it found, and that it finds nothing more to do.
LEMMA UpsertVersionWrites ==
    ASSUME NEW d, NEW sl \in Slice, NEW fd, NEW v \in SeedVersions, NEW r, r = Target(d, sl, v),
           r \in Rows(d.versions) => d.versions[r] \in VersionRow,
           NEW row, row = UpsertVersion(d, sl, fd, v)
    PROVE  /\ "seed" \in row.sources
           /\ ~ row.verified => row.title = sl.title[v] /\ row.year = sl.year[v]
           /\ r \notin Rows(d.versions) => row.year = sl.year[v] /\ row.qid = (v \in sl.qid)
           /\ \A n : (r \in Rows(n.versions) /\ n.versions[r] = row /\ Target(n, sl, v) = r) =>
                 UpsertVersion(n, sl, fd, v) = row
  <1> DEFINE known == HasEntity(sl, fd, v)
             tmdb == known /\ v \in fd.tmdbIds
             imdb == known /\ v \in fd.imdbIds
             high == v \in sl.qid
             source == SliceSources(high)
             original == v \in Originals
             redo(x) == IF x.verified
                        THEN [x EXCEPT !.sources = @ \cup source, !.tmdb = @ \/ tmdb, !.imdb = @ \/ imdb]
                        ELSE [x EXCEPT !.sources = @ \cup source,
                                       !.tmdb = IF known THEN tmdb ELSE @,
                                       !.imdb = IF known THEN imdb ELSE @,
                                       !.title = sl.title[v], !.year = sl.year[v],
                                       !.original = original,
                                       !.conf = IF high THEN "HIGH" ELSE @]
  <1>1. source \in SUBSET Source /\ "seed" \in source
    BY DEF SliceSources, Source
  <1>2. /\ known \in BOOLEAN /\ tmdb \in BOOLEAN /\ imdb \in BOOLEAN /\ high \in BOOLEAN
        /\ original \in BOOLEAN /\ (~ known => ~ tmdb /\ ~ imdb)
    BY DEF HasEntity
  <1>3. sl.title[v] \in Titles /\ sl.year[v] \in Years
    BY DEF Slice
  <1>4. \A n : (r \in Rows(n.versions) /\ Target(n, sl, v) = r /\ n.versions[r] \in VersionRow) =>
            UpsertVersion(n, sl, fd, v) = redo(n.versions[r])
    <2> SUFFICES ASSUME NEW n, r \in Rows(n.versions), Target(n, sl, v) = r,
                        n.versions[r] \in VersionRow
                 PROVE  UpsertVersion(n, sl, fd, v) = redo(n.versions[r])
      OBVIOUS
    <2> DEFINE x == n.versions[r]
               base == [x EXCEPT !.sources = MergeSources(@, source)]
    <2>1. UpsertVersion(n, sl, fd, v) =
                IF base.verified
                THEN [base EXCEPT !.tmdb = @ \/ tmdb, !.imdb = @ \/ imdb]
                ELSE [base EXCEPT !.tmdb = IF known THEN tmdb ELSE @,
                                  !.imdb = IF known THEN imdb ELSE @,
                                  !.title = sl.title[v], !.year = sl.year[v],
                                  !.original = original,
                                  !.conf = IF high THEN "HIGH" ELSE @]
      BY DEF UpsertVersion
    <2> HIDE DEF known, tmdb, imdb, high, source, x, original
    <2>2. x \in VersionRow
      BY DEF x
    <2>3. base = [x EXCEPT !.sources = @ \cup source] /\ base \in VersionRow
          /\ base.verified = x.verified
      BY <1>1, <2>2 DEF MergeSources, VersionRow
    <2> HIDE DEF base
    <2>4. QED
      BY <2>1, <2>2, <2>3 DEF x, VersionRow
  <1>5. row \in VersionRow
    BY UpsertVersionKeeps
  <1>6. /\ r \in Rows(d.versions) => row = redo(d.versions[r])
        /\ r \notin Rows(d.versions) =>
              row = [title |-> sl.title[v], year |-> sl.year[v], qid |-> high, tmdb |-> tmdb,
                 imdb |-> imdb, original |-> original,
                 conf |-> IF high THEN "HIGH" ELSE "MEDIUM", verified |-> FALSE,
                 sources |-> source]
    BY <1>4 DEF UpsertVersion
  <1> HIDE DEF known, tmdb, imdb, high, source, original
  <1>7. /\ redo(row) = row
        /\ "seed" \in row.sources
        /\ ~ row.verified => row.title = sl.title[v] /\ row.year = sl.year[v]
    <2>5. ASSUME row.sources \cup source = row.sources,
                 row.verified => (row.tmdb \/ tmdb) = row.tmdb /\ (row.imdb \/ imdb) = row.imdb,
                 ~ row.verified =>
                    /\ (known => row.tmdb = tmdb /\ row.imdb = imdb)
                    /\ row.title = sl.title[v] /\ row.year = sl.year[v]
                    /\ row.original = original
                    /\ high => row.conf = "HIGH"
          PROVE  redo(row) = row
      <3>1. CASE row.verified
        <4>1. redo(row) = [row EXCEPT !.sources = row.sources, !.tmdb = row.tmdb, !.imdb = row.imdb]
          BY <2>5, <3>1, Zenon
        <4>2. [row EXCEPT !.sources = row.sources, !.tmdb = row.tmdb, !.imdb = row.imdb] = row
          BY <1>5 DEF VersionRow
        <4>3. QED
          BY <4>1, <4>2, Zenon
      <3>2. CASE ~ row.verified
        <4>1. redo(row) = [row EXCEPT !.sources = row.sources, !.tmdb = row.tmdb, !.imdb = row.imdb,
                                      !.title = row.title, !.year = row.year,
                                      !.original = row.original, !.conf = row.conf]
          <5>1. /\ (IF known THEN tmdb ELSE row.tmdb) = row.tmdb
                /\ (IF known THEN imdb ELSE row.imdb) = row.imdb
                /\ (IF high THEN "HIGH" ELSE row.conf) = row.conf
            BY <2>5, <3>2
          <5>2. QED
            BY <2>5, <3>2, <5>1, Zenon
        <4>2. [row EXCEPT !.sources = row.sources, !.tmdb = row.tmdb, !.imdb = row.imdb,
                          !.title = row.title, !.year = row.year,
                          !.original = row.original, !.conf = row.conf] = row
          BY <1>5 DEF VersionRow
        <4>3. QED
          BY <4>1, <4>2, Zenon
      <3>3. QED
        BY <3>1, <3>2
    <2>1. CASE r \notin Rows(d.versions)
      <3>1. /\ row.title = sl.title[v] /\ row.year = sl.year[v] /\ row.original = original
            /\ row.tmdb = tmdb /\ row.imdb = imdb /\ row.sources = source
            /\ row.conf = IF high THEN "HIGH" ELSE "MEDIUM"
            /\ row.verified = FALSE
        BY <1>6, <2>1
      <3>2. QED
        BY <1>1, <1>5, <3>1, <2>5
    <2>2. CASE r \in Rows(d.versions) /\ d.versions[r].verified
      <3>1. d.versions[r] \in VersionRow /\ row = redo(d.versions[r])
        BY <1>6, <2>2
      <3>2. /\ row.sources = d.versions[r].sources \cup source
            /\ row.tmdb = (d.versions[r].tmdb \/ tmdb)
            /\ row.imdb = (d.versions[r].imdb \/ imdb)
            /\ row.verified = d.versions[r].verified
        BY <2>2, <3>1 DEF VersionRow
      <3>3. QED
        BY <1>1, <1>2, <1>5, <2>2, <3>1, <3>2, <2>5 DEF VersionRow
    <2>3. CASE r \in Rows(d.versions) /\ ~ d.versions[r].verified
      <3>1. d.versions[r] \in VersionRow /\ row = redo(d.versions[r])
        BY <1>6, <2>3
      <3>2. /\ row.sources = d.versions[r].sources \cup source
            /\ row.tmdb = IF known THEN tmdb ELSE d.versions[r].tmdb
            /\ row.imdb = IF known THEN imdb ELSE d.versions[r].imdb
            /\ row.title = sl.title[v] /\ row.year = sl.year[v] /\ row.original = original
            /\ row.conf = IF high THEN "HIGH" ELSE d.versions[r].conf
            /\ row.verified = d.versions[r].verified
        BY <2>3, <3>1 DEF VersionRow
      <3>3. QED
        BY <1>1, <1>5, <2>3, <3>2, <2>5
    <2>4. QED
      BY <2>1, <2>2, <2>3
  <1>8. r \notin Rows(d.versions) => row.year = sl.year[v] /\ row.qid = (v \in sl.qid)
    BY <1>6 DEF high
  <1>9. \A n : (r \in Rows(n.versions) /\ n.versions[r] = row /\ Target(n, sl, v) = r) =>
                 UpsertVersion(n, sl, fd, v) = row
    <2> HIDE DEF redo
    <2> QED BY <1>4, <1>5, <1>7
  <1>10. QED
    BY <1>7, <1>8, <1>9

\* After a run that commits, every entry finds the row it wrote: a stored identifier
\* never changes, a new one is the entry's own, and the constraints leave no other row
\* to match.
LEMMA SpineTargets ==
    ASSUME NEW d, NEW sl \in Slice, NEW fd, Shaped(d), VersionsOK(d), EachItsOwnRow(d, sl),
           NEW n, n = IngestSpine(d, sl, fd), VersionsUnique(n),
           NEW v \in SeedVersions
    PROVE  /\ Target(d, sl, v) \in Rows(n.versions)
           /\ n.versions[Target(d, sl, v)] = UpsertVersion(d, sl, fd, v)
           /\ Target(n, sl, v) = Target(d, sl, v)
  <1> DEFINE t == Target(d, sl, v)
             row(r) == n.versions[r]
  <1>1. /\ \A u \in SeedVersions : Target(d, sl, u) = Target(d, sl, v) => u = v
        /\ ByQid(d, sl, v) \cup ByYear(d, sl, v) = {} => <<v, sl.year[v]>> \notin Rows(d.versions)
    BY DEF EachItsOwnRow
  <1>2. t \in Rows(n.versions) /\ n.versions[t] = UpsertVersion(d, sl, fd, v)
    <2> HIDE DEF t
    <2>1. /\ Target(d, sl, v) \in Rows(n.versions)
          /\ \E u \in SeedVersions :
                 /\ Target(d, sl, u) = Target(d, sl, v)
                 /\ n.versions[Target(d, sl, v)] = UpsertVersion(d, sl, fd, u)
      BY SpineEntries
    <2>2. QED
      BY <1>1, <2>1 DEF t
  <1>3. t \in Rows(d.versions) => d.versions[t] \in VersionRow
    BY DEF VersionsOK
  <1>4. /\ ~ row(t).verified => row(t).year = sl.year[v]
        /\ t \notin Rows(d.versions) => row(t).year = sl.year[v] /\ row(t).qid = (v \in sl.qid)
    BY <1>2, <1>3, UpsertVersionWrites
  <1>5. t \in Rows(d.versions) =>
            /\ row(t).qid = d.versions[t].qid
            /\ row(t).verified = d.versions[t].verified
            /\ row(t).verified => row(t).year = d.versions[t].year
    <2> DEFINE x == n.versions[t]
    <2>1. x = UpsertVersion(d, sl, fd, v)
      BY <1>2
    <2> HIDE DEF x
    <2>2. t \in Rows(d.versions) =>
            /\ x.qid = d.versions[t].qid
            /\ x.verified = d.versions[t].verified
            /\ d.versions[t].verified =>
                  \A f \in {"title", "year", "original"} : x[f] = d.versions[t][f]
      BY <1>3, <2>1, UpsertVersionKeeps
    <2>3. QED
      BY <2>2 DEF x
  \* The identifiers of the table.
  <1>6. ASSUME NEW r \in Rows(n.versions), r[1] = v, row(r).qid, r # t
        PROVE  r \in Rows(d.versions) /\ d.versions[r].qid
    <2>1. CASE r \in Rows(d.versions) /\ n.versions[r] = d.versions[r]
      BY <1>6, <2>1
    <2>2. CASE \E u \in SeedVersions :
                  r = Target(d, sl, u) /\ n.versions[r] = UpsertVersion(d, sl, fd, u)
      <3>1. PICK u \in SeedVersions :
                  r = Target(d, sl, u) /\ n.versions[r] = UpsertVersion(d, sl, fd, u)
        BY <2>2
      <3>2. r \in Rows(d.versions)
        <4>1. SUFFICES ASSUME r \notin Rows(d.versions) PROVE u = v
          BY <1>6, <3>1
        <4>2. ByQid(d, sl, u) \subseteq Rows(d.versions) /\ ByYear(d, sl, u) \subseteq Rows(d.versions)
          BY DEF ByQid, ByYear
        <4>3. Target(d, sl, u) = <<u, sl.year[u]>>
          BY <3>1, <4>1, <4>2 DEF Target
        <4>4. QED
          BY <1>6, <3>1, <4>3
      <3>3. d.versions[r] \in VersionRow
        BY <3>2 DEF VersionsOK
      <3>4. row(r).qid = d.versions[r].qid
        <4> DEFINE x == n.versions[r]
        <4>1. x = UpsertVersion(d, sl, fd, u)
          BY <3>1
        <4> HIDE DEF x
        <4>2. x.qid = d.versions[r].qid
          BY <3>1, <3>2, <3>3, <4>1, UpsertVersionKeeps
        <4>3. QED
          BY <4>2 DEF x
      <3>5. QED
        BY <1>6, <3>2, <3>4
    <2>3. QED
      BY <2>1, <2>2, SpineChanges
  <1>7. ByQid(n, sl, v) \subseteq {t} \cup ByQid(d, sl, v)
    BY <1>6 DEF ByQid
  <1>8. CASE ByQid(d, sl, v) # {}
    <2>1. t \in ByQid(d, sl, v)
      BY <1>8 DEF Target
    <2>2. t \in ByQid(n, sl, v)
      BY <1>2, <1>5, <2>1 DEF ByQid
    <2>3. \A r \in ByQid(n, sl, v) : r = t
      BY <2>2 DEF ByQid, VersionsUnique
    <2>4. QED
      BY <1>2, <2>2, <2>3 DEF Target
  <1>9. CASE ByQid(d, sl, v) = {} /\ ByYear(d, sl, v) # {}
    <2>1. t \in ByYear(d, sl, v)
      BY <1>9 DEF Target
    <2>2. t \notin ByQid(n, sl, v)
      BY <1>5, <1>9, <2>1 DEF ByQid, ByYear
    <2>3. ByQid(n, sl, v) = {}
      BY <1>7, <1>9, <2>2
    <2>4. row(t).year = sl.year[v]
      BY <1>4, <1>5, <2>1 DEF ByYear
    <2>5. t \in ByYear(n, sl, v)
      BY <1>2, <2>1, <2>4 DEF ByYear
    <2>6. \A r \in ByYear(n, sl, v) : r = t
      BY <2>5 DEF ByYear, VersionsUnique
    <2>7. QED
      BY <1>2, <2>3, <2>5, <2>6 DEF Target
  <1>10. CASE ByQid(d, sl, v) = {} /\ ByYear(d, sl, v) = {}
    <2>1. t = <<v, sl.year[v]>> /\ t \notin Rows(d.versions)
      BY <1>1, <1>10 DEF Target
    <2>2. row(t).year = sl.year[v] /\ row(t).qid = (v \in sl.qid)
      BY <1>4, <2>1
    <2>3. CASE v \in sl.qid
      <3>1. t \in ByQid(n, sl, v)
        <4>1. t[1] = v
          BY <2>1
        <4>2. n.versions[t].qid
          BY <2>2, <2>3
        <4>3. QED
          BY <1>2, <2>3, <4>1, <4>2 DEF ByQid
      <3>2. \A r \in ByQid(n, sl, v) : r = t
        BY <1>7, <1>10
      <3>3. QED
        BY <1>2, <3>1, <3>2 DEF Target
    <2>4. CASE v \notin sl.qid
      <3>1. ByQid(n, sl, v) = {}
        BY <2>4 DEF ByQid
      <3>2. t \in ByYear(n, sl, v)
        BY <1>2, <2>1, <2>2 DEF ByYear
      <3>3. \A r \in ByYear(n, sl, v) : r = t
        BY <3>2 DEF ByYear, VersionsUnique
      <3>4. QED
        BY <1>2, <3>1, <3>2, <3>3 DEF Target
    <2>5. QED
      BY <2>3, <2>4
  <1>11. QED
    BY <1>8, <1>9, <1>10

LEMMA SameClaims ==
    ASSUME NEW d, NEW n, NEW sl \in Slice, NEW c,
           \A v \in SeedVersions : Target(n, sl, v) = Target(d, sl, v)
    PROVE  ClaimEdge(n, sl, c) = ClaimEdge(d, sl, c)
  <1>1. sl.qid \subseteq SeedVersions
    BY DEF Slice
  <1> DEFINE derived == IF c.prop \in {"P144", "P155"} THEN c.item ELSE c.target
             base == IF c.prop \in {"P144", "P155"} THEN c.target ELSE c.item
  <1>2. \A x : x \in sl.qid => Target(n, sl, x) = Target(d, sl, x)
    BY <1>1
  <1>3. \A x \in {n, d} : ClaimEdge(x, sl, c) =
            IF derived \notin sl.qid THEN Null
            ELSE IF c.prop \in {"P155", "P156"}
            THEN IF base \in sl.qid /\ WorkOf[derived] # WorkOf[base]
                 THEN <<"is_sequel_of", WorkOf[derived], WorkOf[base]>> ELSE Null
            ELSE IF base \in sl.qid
            THEN <<"is_remake_of", Target(x, sl, derived), Target(x, sl, base)>>
            ELSE IF base \in WorkQid /\ WorkOf[derived] # base
            THEN <<"based_on", WorkOf[derived], base>> ELSE Null
    BY Zenon DEF ClaimEdge
  <1> HIDE DEF derived, base
  <1>4. QED
    BY <1>2, <1>3

LEMMA WorkTwice ==
    ASSUME NEW d, NEW sl, NEW n, NEW w, WorksOK(d),
           w \in Rows(n.works), n.works[w] = UpsertWork(d, sl, w)
    PROVE  UpsertWork(n, sl, w) = n.works[w]
  <1> DEFINE anchor == Anchored(sl, w)
             source == SliceSources(anchor)
             redo(x) == [x EXCEPT !.qid = anchor, !.sources = @ \cup source]
             row == n.works[w]
  <1>1. UpsertWork(n, sl, w) = redo(row)
    BY DEF UpsertWork, MergeSources
  <1>2. row = IF w \in Rows(d.works) THEN redo(d.works[w])
              ELSE [qid |-> anchor, conf |-> IF anchor THEN "HIGH" ELSE "MEDIUM",
                    sources |-> source]
    BY DEF UpsertWork, MergeSources
  <1>3. w \in Rows(d.works) => d.works[w] \in WorkRow
    BY DEF WorksOK
  <1>4. anchor \in BOOLEAN /\ source \subseteq Source
    BY DEF Anchored, SliceSources, Source
  <1> HIDE DEF anchor, source, row
  <1>5. row \in WorkRow /\ row.qid = anchor /\ row.sources \cup source = row.sources
    <2>1. CASE w \in Rows(d.works)
      <3> DEFINE x == d.works[w]
      <3>1. x \in WorkRow /\ row = redo(x)
        BY <1>2, <1>3, <2>1
      <3> HIDE DEF x
      <3>2. row.sources = x.sources \cup source /\ row.qid = anchor
        BY <3>1 DEF WorkRow
      <3>3. row \in WorkRow
        BY <1>4, <3>1 DEF WorkRow
      <3>4. QED
        BY <3>2, <3>3
    <2>2. CASE w \notin Rows(d.works)
      BY <1>2, <1>4, <2>2 DEF WorkRow
    <2>3. QED
      BY <2>1, <2>2
  <1>6. [row EXCEPT !.qid = row.qid, !.sources = row.sources] = row
    BY <1>5 DEF WorkRow
  <1>7. redo(row) = row
    BY <1>5, <1>6, Zenon
  <1>8. QED
    BY <1>1, <1>7 DEF row

LEMMA SpineTwice ==
    ASSUME NEW d, NEW sl \in Slice, NEW fd, Shaped(d), WorksOK(d), VersionsOK(d), EachItsOwnRow(d, sl),
           NEW n, n = IngestSpine(d, sl, fd), VersionsUnique(n),
           NEW m, m = IngestSpine(n, sl, fd)
    PROVE  m = n
  <1>1. /\ Shaped(n)
        /\ n.conflicts = d.conflicts \cup SpineConflicts(d, sl, fd)
        /\ Rows(n.works) = Rows(d.works) \cup WorkKeys
        /\ \A w \in WorkKeys : n.works[w] = UpsertWork(d, sl, w)
    BY SpineChanges
  <1>2. /\ Shaped(m)
        /\ m.candidates = n.candidates /\ m.titles = n.titles /\ m.cast = n.cast
        /\ m.conflicts = n.conflicts \cup SpineConflicts(n, sl, fd)
        /\ Rows(m.works) = Rows(n.works) \cup WorkKeys
        /\ \A w \in WorkKeys : m.works[w] = UpsertWork(n, sl, w)
        /\ Rows(n.versions) \subseteq Rows(m.versions)
        /\ \A r \in Rows(m.versions) :
              \/ r \in Rows(n.versions) /\ m.versions[r] = n.versions[r]
              \/ \E v \in SeedVersions :
                    r = Target(n, sl, v) /\ m.versions[r] = UpsertVersion(n, sl, fd, v)
        /\ \A e \in Rows(n.edges) : m.edges[e] = n.edges[e]
    BY <1>1, SpineChanges
  <1>3. \A v \in SeedVersions :
            /\ Target(d, sl, v) \in Rows(n.versions)
            /\ n.versions[Target(d, sl, v)] = UpsertVersion(d, sl, fd, v)
            /\ Target(n, sl, v) = Target(d, sl, v)
    BY SpineTargets
  <1>3a. /\ IsTable(n.works) /\ IsTable(n.versions) /\ IsTable(n.edges)
         /\ IsTable(m.works) /\ IsTable(m.versions) /\ IsTable(m.edges)
         /\ Rows(n.edges) = Rows(d.edges) \cup AssertedEdges(d, sl, fd)
         /\ Rows(m.edges) = Rows(n.edges) \cup AssertedEdges(n, sl, fd)
    BY <1>1, SpineTables
  <1>4. m.works = n.works
    <2>1. \A w \in WorkKeys : UpsertWork(n, sl, w) = n.works[w]
      BY <1>1, WorkTwice
    <2>2. Rows(n.works) = WorkKeys /\ Rows(m.works) = WorkKeys
      BY <1>1, <1>2 DEF WorksOK
    <2>3. \A w \in WorkKeys : m.works[w] = n.works[w]
      BY <1>2, <2>1
    <2>4. QED
      BY <1>3a, <2>2, <2>3, SameTable
  <1>5. m.versions = n.versions
    <2>1. ASSUME NEW r \in Rows(m.versions)
          PROVE  r \in Rows(n.versions) /\ m.versions[r] = n.versions[r]
      <3>1. CASE \E v \in SeedVersions :
                    r = Target(n, sl, v) /\ m.versions[r] = UpsertVersion(n, sl, fd, v)
        <4>1. PICK v \in SeedVersions :
                    r = Target(n, sl, v) /\ m.versions[r] = UpsertVersion(n, sl, fd, v)
          BY <3>1
        <4>2. r = Target(d, sl, v) /\ r \in Rows(n.versions)
              /\ n.versions[r] = UpsertVersion(d, sl, fd, v)
          BY <1>3, <4>1
        <4>3. r \in Rows(d.versions) => d.versions[r] \in VersionRow
          BY DEF VersionsOK
        <4>4. UpsertVersion(n, sl, fd, v) = n.versions[r]
          <5> DEFINE row == n.versions[r]
          <5>1. row = UpsertVersion(d, sl, fd, v) /\ Target(n, sl, v) = r
            BY <4>1, <4>2
          <5>2. \A x : (r \in Rows(x.versions) /\ x.versions[r] = row /\ Target(x, sl, v) = r) =>
                    UpsertVersion(x, sl, fd, v) = row
            <6> HIDE DEF row
            <6> QED BY <4>2, <4>3, <5>1, UpsertVersionWrites
          <5>3. QED
            BY <4>2, <5>1, <5>2
        <4>5. QED
          BY <4>1, <4>2, <4>4
      <3>2. QED
        BY <1>2, <3>1
    <2>2. Rows(m.versions) = Rows(n.versions)
      BY <1>2, <2>1
    <2>3. QED
      BY <1>3a, <2>1, <2>2, SameTable
  <1>6. SpineConflicts(n, sl, fd) = {}
    <2> SUFFICES ASSUME NEW v \in SeedVersions, YearContested(sl, fd, v)
                 PROVE  OpenConflict(n, Target(n, sl, v), "release_year")
      BY DEF SpineConflicts
    <2> DEFINE t == Target(d, sl, v)
    <2>1. Target(n, sl, v) = t
      BY <1>3
    <2>2. CASE OpenConflict(d, t, "release_year")
      BY <1>1, <2>1, <2>2 DEF OpenConflict, Conflicts
    <2>3. CASE ~ OpenConflict(d, t, "release_year")
      <3> DEFINE x == NewConflict(d, t, "release_year", "open")
      <3>1. x \in n.conflicts
        BY <1>1, <2>3 DEF SpineConflicts
      <3>2. x.about = t /\ x.field = "release_year" /\ x.status = "open"
        BY DEF NewConflict
      <3> HIDE DEF x, t
      <3>3. QED
        BY <2>1, <3>1, <3>2 DEF OpenConflict, Conflicts
    <2>4. QED
      BY <2>2, <2>3
  <1>7. m.edges = n.edges
    <2>1. \A c \in fd.claims : ClaimEdge(n, sl, c) = ClaimEdge(d, sl, c)
      BY <1>3, SameClaims
    <2>2. AssertedEdges(n, sl, fd) = {}
      BY <1>3a, <2>1 DEF AssertedEdges
    <2>3. Rows(m.edges) = Rows(n.edges)
      BY <1>3a, <2>2
    <2>4. \A e \in Rows(n.edges) : m.edges[e] = n.edges[e]
      BY <1>2
    <2>5. QED
      BY <1>3a, <2>3, <2>4, SameTable
  <1>8. m.conflicts = n.conflicts
    BY <1>2, <1>6
  <1>9. QED
    BY <1>1, <1>2, <1>4, <1>5, <1>7, <1>8 DEF Shaped

----------------------------------------------------------------------------
(* The rule builder, run once and again.                                   *)

LEMMA BuildTables ==
    ASSUME NEW d, Shaped(d), NEW n, n = BuildGraph(d)
    PROVE  Rows(n.edges) = Rows(d.edges) \cup DerivedDubs(d) /\ IsTable(n.edges)
  <1> DEFINE new == [e \in DerivedDubs(d) |->
                        [conf |-> "MEDIUM", verified |-> FALSE, sources |-> {"rule"}]]
  <1>1. n.edges = Upsert(d.edges, new)
    BY DEF BuildGraph, Shaped
  <1>2. DOMAIN new = DerivedDubs(d)
    OBVIOUS
  <1> HIDE DEF new
  <1>3. QED
    BY <1>1, <1>2, Upserted, UpsertIsTable

\* A run derives every dub there is to derive, and contests every edge it found and
\* disagrees with: only an edge it derived itself can be left to contest.
LEMMA BuildSettles ==
    ASSUME NEW d, Shaped(d), NEW n, n = BuildGraph(d)
    PROVE  /\ DerivedDubs(n) = {}
           /\ \A e \in Rows(n.edges) :
                 (/\ e[1] \in VersionEdges
                  /\ ~ RuleAgrees(Classify(Leads(n, e[2]), Leads(n, e[3])), e[1])
                  /\ ~ AnyConflict(n, e, "edge_type"))
                    => e \in DerivedDubs(d)
  <1>1. DerivedDubs(n) = {}
    <2> DEFINE dubs == {<<"is_official_dub_of", t, CHOOSE p \in Primaries(d, WorkOf[t[1]]) : TRUE>> :
                          t \in UNION {DubTracks(d, w) : w \in {x \in WorkKeys : Primaries(d, x) # {}}}}
    <2>1. n.versions = d.versions
      BY BuildTables, BuildChanges
    <2>2. \A w : Primaries(n, w) = Primaries(d, w) /\ DubTracks(n, w) = DubTracks(d, w)
      BY <2>1 DEF Primaries, DubTracks
    <2>3. DerivedDubs(d) = dubs \ Rows(d.edges)
      BY DEF DerivedDubs
    <2>4. DerivedDubs(n) = dubs \ Rows(n.edges)
      BY <2>2 DEF DerivedDubs
    <2>5. Rows(n.edges) = Rows(d.edges) \cup DerivedDubs(d)
      BY BuildTables, BuildChanges
    <2> HIDE DEF dubs
    <2>6. QED
      BY <2>3, <2>4, <2>5
  <1>2. ASSUME NEW e \in Rows(d.edges), e[1] \in VersionEdges,
               ~ RuleAgrees(Classify(Leads(n, e[2]), Leads(n, e[3])), e[1])
        PROVE  AnyConflict(n, e, "edge_type")
    <2>1. n.cast = d.cast /\ n.conflicts = d.conflicts \cup RuleConflicts(d)
      BY BuildTables, BuildChanges
    <2>2. ~ RuleAgrees(Classify(Leads(d, e[2]), Leads(d, e[3])), e[1])
      BY <1>2, <2>1 DEF Leads
    <2>3. CASE AnyConflict(d, e, "edge_type")
      BY <2>1, <2>3 DEF AnyConflict, Conflicts
    <2>4. CASE ~ AnyConflict(d, e, "edge_type")
      <3> DEFINE x == NewConflict(d, e, "edge_type", "open")
      <3>1. x \in n.conflicts
        BY <1>2, <2>1, <2>2, <2>4 DEF RuleConflicts
      <3>2. x.about = e /\ x.field = "edge_type"
        BY DEF NewConflict
      <3> HIDE DEF x
      <3>3. QED
        BY <3>1, <3>2 DEF AnyConflict, Conflicts
    <2>5. QED
      BY <2>3, <2>4
  <1>3. Rows(n.edges) = Rows(d.edges) \cup DerivedDubs(d)
    BY BuildTables, BuildChanges
  <1>4. QED
    BY <1>1, <1>2, <1>3

\* A run that has nothing to contest and nothing to derive changes nothing.
LEMMA BuildIdle ==
    ASSUME NEW d, Shaped(d), IsTable(d.edges), NEW n, n = BuildGraph(d)
    PROVE  RuleConflicts(d) = {} /\ DerivedDubs(d) = {} => n = d
  <1>1. /\ Shaped(n)
        /\ n.works = d.works /\ n.versions = d.versions /\ n.candidates = d.candidates
        /\ n.titles = d.titles /\ n.cast = d.cast
        /\ n.conflicts = d.conflicts \cup RuleConflicts(d)
        /\ \A e \in Rows(d.edges) : n.edges[e] = d.edges[e]
    BY BuildChanges
  <1>2. Rows(n.edges) = Rows(d.edges) \cup DerivedDubs(d) /\ IsTable(n.edges)
    BY BuildTables
  <1> HAVE RuleConflicts(d) = {} /\ DerivedDubs(d) = {}
  <1>3. n.edges = d.edges
    BY <1>1, <1>2, SameTable
  <1>4. n.conflicts = d.conflicts
    BY <1>1
  <1>5. QED
    BY <1>1, <1>3, <1>4 DEF Shaped

\* The second run only contests dubs the first one derived for tracks whose leads are
\* known; after it there is nothing left to do.
LEMMA BuildTwice ==
    ASSUME NEW d, Shaped(d), NEW n, n = BuildGraph(d), NEW m, m = BuildGraph(n)
    PROVE  LET late == m.conflicts \ n.conflicts
           IN  /\ m = [n EXCEPT !.conflicts = @ \cup late]
               /\ \A c \in late : c.about \in DerivedDubs(d) /\ Leads(d, c.about[2]) # {}
               /\ BuildGraph(m) = m
  <1> DEFINE late == m.conflicts \ n.conflicts
  <1>1. Shaped(n) /\ IsTable(n.edges) /\ n.cast = d.cast
    BY BuildTables, BuildChanges
  <1>2. /\ Shaped(m) /\ IsTable(m.edges)
        /\ m.works = n.works /\ m.versions = n.versions /\ m.candidates = n.candidates
        /\ m.titles = n.titles /\ m.cast = n.cast
        /\ m.conflicts = n.conflicts \cup RuleConflicts(n)
        /\ \A e \in Rows(n.edges) : m.edges[e] = n.edges[e]
    BY <1>1, BuildTables, BuildChanges
  <1>3. DerivedDubs(n) = {} /\ DerivedDubs(m) = {}
    BY <1>1, BuildSettles
  <1>4. m = [n EXCEPT !.conflicts = @ \cup late]
    <2>1. Rows(m.edges) = Rows(n.edges)
      BY <1>1, <1>3, BuildTables
    <2>2. m.edges = n.edges
      BY <1>1, <1>2, <2>1, SameTable
    <2>3. m.conflicts = n.conflicts \cup late
      BY <1>2
    <2> HIDE DEF late
    <2>4. QED
      BY <1>1, <1>2, <2>2, <2>3 DEF Shaped
  <1>5. ASSUME NEW c \in late
        PROVE  c.about \in DerivedDubs(d) /\ Leads(d, c.about[2]) # {}
    <2>1. c \in RuleConflicts(n)
      BY <1>2, <1>5
    <2>2. PICK e \in Rows(n.edges) :
             /\ e[1] \in VersionEdges
             /\ ~ RuleAgrees(Classify(Leads(n, e[2]), Leads(n, e[3])), e[1])
             /\ ~ AnyConflict(n, e, "edge_type")
             /\ c = NewConflict(n, e, "edge_type", "open")
      BY <2>1 DEF RuleConflicts
    <2>3. c.about = e
      BY <2>2 DEF NewConflict
    <2>4. e \in DerivedDubs(d)
      BY <2>2, BuildSettles
    <2>5. Leads(n, e[2]) # {}
      BY <2>2 DEF Classify, RuleAgrees
    <2>6. Leads(d, e[2]) = Leads(n, e[2])
      BY <1>1 DEF Leads
    <2>7. QED
      BY <2>3, <2>4, <2>5, <2>6
  <1>6. BuildGraph(m) = m
    <2>1. \A e \in Rows(m.edges) :
                 (/\ e[1] \in VersionEdges
                  /\ ~ RuleAgrees(Classify(Leads(m, e[2]), Leads(m, e[3])), e[1])
                  /\ ~ AnyConflict(m, e, "edge_type"))
                    => e \in DerivedDubs(n)
      BY <1>1, BuildSettles
    <2>2. RuleConflicts(m) = {}
      BY <1>3, <2>1 DEF RuleConflicts
    <2>3. QED
      BY <1>2, <1>3, <2>2, BuildIdle
  <1>7. QED
    BY <1>4, <1>5, <1>6

----------------------------------------------------------------------------
(* The extraction, run once and again.                                     *)

\* A run leaves no supported proposal whose key is not recorded, so the next finds none.
LEMMA LoadTwice ==
    ASSUME NEW d, Shaped(d), NEW proposals, NEW bound, NEW again,
           NEW n, n = LoadCandidates(d, proposals, bound)
    PROVE  LoadCandidates(n, proposals, again) = n
  <1> DEFINE fresh(x) == {p \in proposals : p.supported /\ CandidateKey(p) \notin Rows(x.candidates)}
             row(p, b) == [src |-> b[p.src], dst |-> IF b[p.dst] = b[p.src] THEN Null ELSE b[p.dst],
                           status |-> "proposed", edge |-> Null]
             new(x, b) == [k \in {CandidateKey(p) : p \in fresh(x)} |->
                             row(CHOOSE p \in fresh(x) : CandidateKey(p) = k, b)]
  <1>1. \A x, b : LoadCandidates(x, proposals, b) = [x EXCEPT !.candidates = Upsert(@, new(x, b))]
    BY DEF LoadCandidates
  <1>2. \A x, b : DOMAIN new(x, b) = {CandidateKey(p) : p \in fresh(x)}
    OBVIOUS
  <1> HIDE DEF new, fresh
  <1>3. Shaped(n) /\ n.candidates = Upsert(d.candidates, new(d, bound))
    BY <1>1 DEF Shaped
  <1>4. IsTable(n.candidates)
    BY <1>3, UpsertIsTable
  <1>5. Rows(n.candidates) = Rows(d.candidates) \cup {CandidateKey(p) : p \in fresh(d)}
    <2> DEFINE added == new(d, bound)
    <2>1. DOMAIN added = {CandidateKey(p) : p \in fresh(d)}
      BY <1>2
    <2> HIDE DEF added
    <2>2. QED
      BY <1>3, <2>1, Upserted DEF added
  <1>6. fresh(n) = {}
    BY <1>5 DEF fresh
  <1> DEFINE none == new(n, again)
             t == Upsert(n.candidates, none)
  <1>7. DOMAIN none = {}
    BY <1>2, <1>6
  <1>8. t = n.candidates
    <2> HIDE DEF none
    <2>1. Rows(t) = Rows(n.candidates) /\ \A k \in Rows(n.candidates) : t[k] = n.candidates[k]
      BY <1>7, Upserted
    <2>2. IsTable(t)
      BY UpsertIsTable
    <2> HIDE DEF t
    <2>3. QED
      BY <1>4, <2>1, <2>2, SameTable
  <1>9. QED
    BY <1>1, <1>3, <1>8 DEF Shaped

----------------------------------------------------------------------------
(* The title loaders, run once and again.                                  *)

\* Titles are found through the rows and what TMDB and the slice say of them.
LEMMA SameTitles ==
    ASSUME NEW d, NEW m, NEW last, NEW r, Rows(m.versions) = Rows(d.versions),
           \A s \in Rows(d.versions) : /\ m.versions[s].tmdb = d.versions[s].tmdb
                                       /\ m.versions[s].original = d.versions[s].original
    PROVE  MovieTitles(m, r, last) = MovieTitles(d, r, last)
  <1>1. Siblings(m, r) = Siblings(d, r) /\ Siblings(d, r) \subseteq Rows(d.versions)
    BY DEF Siblings
  <1>2. \A s \in Siblings(d, r) : TitleKind(m, s) = TitleKind(d, s)
    BY <1>1 DEF TitleKind
  <1>3. {u \in Siblings(m, r) : ~ m.versions[u].tmdb /\ u \in last}
            = {u \in Siblings(d, r) : ~ d.versions[u].tmdb /\ u \in last}
    BY <1>1
  <1> DEFINE others == {u \in Siblings(d, r) : ~ d.versions[u].tmdb /\ u \in last}
             of(x) == {<<s, Title[s[1]], TitleKind(x, s)>> : s \in others}
  <1>4. of(m) = of(d)
    BY <1>2
  <1>5. /\ MovieTitles(m, r, last) = {<<r, Title[r[1]], "canonical">>} \cup of(m)
        /\ MovieTitles(d, r, last) = {<<r, Title[r[1]], "canonical">>} \cup of(d)
    BY <1>3 DEF MovieTitles
  <1>6. QED
    BY <1>4, <1>5

\* What the enrichment found is settled: a second look opens nothing.
LEMMA MovieSettled ==
    ASSUME NEW d, NEW m, NEW fd, NEW r \in Rows(d.versions), NEW f \in {"release_year", "original_language"},
           m.versions[r].year = d.versions[r].year, m.versions[r].original = d.versions[r].original,
           d.conflicts \cup MovieConflict(d, fd, r, f) \subseteq m.conflicts
    PROVE  MovieConflict(m, fd, r, f) = {}
  <1> DEFINE obs == IF f = "release_year"
                    THEN <<[value |-> d.versions[r].year], [value |-> fd.movies[r[1]].year]>>
                    ELSE <<[value |-> Language[r[1]]], [value |-> fd.movies[r[1]].language]>>
             status == ResolveField(f, obs)
             quiet == status = "none" \/ (f = "original_language" /\ ~ d.versions[r].original)
  <1>1. MovieConflict(d, fd, r, f) =
            IF quiet \/ AnyConflict(d, r, f) THEN {} ELSE {NewConflict(d, r, f, status)}
    BY DEF MovieConflict
  <1>2. MovieConflict(m, fd, r, f) =
            IF quiet \/ AnyConflict(m, r, f) THEN {} ELSE {NewConflict(m, r, f, status)}
    BY DEF MovieConflict
  <1> HIDE DEF quiet, status
  <1>3. AnyConflict(d, r, f) => AnyConflict(m, r, f)
    BY DEF AnyConflict, Conflicts
  <1>4. ASSUME ~ quiet, ~ AnyConflict(d, r, f)
        PROVE  AnyConflict(m, r, f)
    <2> DEFINE x == NewConflict(d, r, f, status)
    <2>1. x \in m.conflicts
      BY <1>1, <1>4
    <2>2. x.about = r /\ x.field = f
      BY DEF NewConflict
    <2> HIDE DEF x
    <2>3. QED
      BY <2>1, <2>2 DEF AnyConflict, Conflicts
  <1>5. QED
    BY <1>2, <1>3, <1>4

LEMMA EnrichTwice ==
    ASSUME NEW d, NEW fd, NEW last, Shaped(d), VersionsOK(d), NEW m, m = EnrichTmdb(d, fd, last)
    PROVE  Shaped(m) /\ EnrichTmdb(m, fd, last) = m
  <1> DEFINE rows == Enriched(d, fd)
             new == [r \in rows |-> [d.versions[r] EXCEPT !.imdb = TRUE]]
             mt == UNION {MovieTitles(d, r, last) : r \in rows}
             again == Enriched(m, fd)
             new2 == [r \in again |-> [m.versions[r] EXCEPT !.imdb = TRUE]]
             mt2 == UNION {MovieTitles(m, r, last) : r \in again}
             bill == [r \in rows |-> Leads(d, r) \cup fd.movies[r[1]].leads]
             bill2 == [r \in again |-> Leads(m, r) \cup fd.movies[r[1]].leads]
             p == EnrichTmdb(m, fd, last)
  <1>1. m = [d EXCEPT !.versions = Upsert(@, new), !.conflicts = @ \cup MovieConflicts(d, fd),
                      !.titles = @ \cup mt, !.cast = Upsert(@, bill)]
    BY DEF EnrichTmdb, MovieConflicts, UpsertTitles
  <1>2. p = [m EXCEPT !.versions = Upsert(@, new2), !.conflicts = @ \cup MovieConflicts(m, fd),
                      !.titles = @ \cup mt2, !.cast = Upsert(@, bill2)]
    BY DEF EnrichTmdb, MovieConflicts, UpsertTitles
  <1>3. DOMAIN new = rows /\ rows \subseteq Rows(d.versions)
        /\ \A r \in rows : new[r] = [d.versions[r] EXCEPT !.imdb = TRUE]
    BY DEF Enriched
  <1>4. DOMAIN new2 = again /\ again \subseteq Rows(m.versions)
        /\ \A r \in again : new2[r] = [m.versions[r] EXCEPT !.imdb = TRUE]
    BY DEF Enriched
  <1>b. /\ DOMAIN bill = rows /\ \A r \in rows : bill[r] = Leads(d, r) \cup fd.movies[r[1]].leads
        /\ DOMAIN bill2 = again /\ \A r \in again : bill2[r] = Leads(m, r) \cup fd.movies[r[1]].leads
    OBVIOUS
  <1> HIDE DEF new, new2, mt, mt2, bill, bill2
  <1>5. /\ Shaped(m)
        /\ m.versions = Upsert(d.versions, new) /\ m.conflicts = d.conflicts \cup MovieConflicts(d, fd)
        /\ m.titles = d.titles \cup mt /\ m.cast = Upsert(d.cast, bill)
    BY <1>1 DEF Shaped
  <1>6. /\ Shaped(p) /\ p.works = m.works /\ p.edges = m.edges /\ p.candidates = m.candidates
        /\ p.versions = Upsert(m.versions, new2) /\ p.conflicts = m.conflicts \cup MovieConflicts(m, fd)
        /\ p.titles = m.titles \cup mt2 /\ p.cast = Upsert(m.cast, bill2)
    BY <1>2, <1>5 DEF Shaped
  <1> HIDE DEF rows, again, p
  <1>7. /\ Rows(m.versions) = Rows(d.versions)
        /\ \A r \in rows : m.versions[r] = [d.versions[r] EXCEPT !.imdb = TRUE]
        /\ \A r \in Rows(d.versions) \ rows : m.versions[r] = d.versions[r]
    <2>1. /\ Rows(m.versions) = Rows(d.versions) \cup rows
          /\ \A r \in rows : m.versions[r] = new[r]
          /\ \A r \in Rows(d.versions) : r \notin rows => m.versions[r] = d.versions[r]
      BY <1>3, <1>5, Upserted
    <2>2. QED
      BY <1>3, <2>1
  <1>8. \A r \in Rows(d.versions) :
            /\ m.versions[r] \in VersionRow
            /\ m.versions[r].tmdb = d.versions[r].tmdb
            /\ m.versions[r].year = d.versions[r].year
            /\ m.versions[r].original = d.versions[r].original
            /\ r \in rows => m.versions[r].imdb = TRUE
    <2> SUFFICES ASSUME NEW r \in Rows(d.versions)
                 PROVE  /\ m.versions[r] \in VersionRow
                        /\ m.versions[r].tmdb = d.versions[r].tmdb
                        /\ m.versions[r].year = d.versions[r].year
                        /\ m.versions[r].original = d.versions[r].original
                        /\ r \in rows => m.versions[r].imdb = TRUE
      OBVIOUS
    <2>1. d.versions[r] \in VersionRow
      BY DEF VersionsOK
    <2>2. CASE r \in rows
      BY <1>7, <2>1, <2>2 DEF VersionRow
    <2>3. CASE r \notin rows
      BY <1>7, <2>1, <2>3
    <2>4. QED
      BY <2>2, <2>3
  <1>9. again = rows
    BY <1>7, <1>8 DEF again, rows, Enriched
  <1>10. p.versions = m.versions
    <2>1. /\ Rows(p.versions) = Rows(m.versions) \cup rows
          /\ \A r \in rows : p.versions[r] = new2[r]
          /\ \A r \in Rows(m.versions) : r \notin rows => p.versions[r] = m.versions[r]
      BY <1>4, <1>6, <1>9, Upserted
    <2>2. ASSUME NEW r \in rows PROVE p.versions[r] = m.versions[r]
      <3>1. m.versions[r] \in VersionRow /\ m.versions[r].imdb = TRUE
        BY <1>3, <1>8
      <3>2. p.versions[r] = [m.versions[r] EXCEPT !.imdb = TRUE]
        BY <1>4, <1>9, <2>1
      <3>3. \A x \in VersionRow : x.imdb = TRUE => [x EXCEPT !.imdb = TRUE] = x
        <4>1. \A x \in VersionRow : [x EXCEPT !.imdb = x.imdb] = x
          BY DEF VersionRow
        <4>2. QED
          BY <4>1, Zenon
      <3>4. QED
        BY <3>1, <3>2, <3>3
    <2>3. Rows(p.versions) = Rows(m.versions)
      BY <1>3, <1>7, <2>1
    <2>4. \A r \in Rows(m.versions) : p.versions[r] = m.versions[r]
      BY <2>1, <2>2
    <2>5. IsTable(p.versions) /\ IsTable(m.versions)
      BY <1>5, <1>6, UpsertIsTable
    <2>6. QED
      BY <2>3, <2>4, <2>5, SameTable
  <1>11. MovieConflicts(m, fd) = {}
    <2>1. ASSUME NEW r \in rows, NEW f \in {"release_year", "original_language"}
          PROVE  MovieConflict(m, fd, r, f) = {}
      <3>1. d.conflicts \cup MovieConflict(d, fd, r, f) \subseteq m.conflicts
        BY <1>5 DEF MovieConflicts, rows
      <3>2. r \in Rows(d.versions)
        BY <1>3
      <3>3. m.versions[r].year = d.versions[r].year /\ m.versions[r].original = d.versions[r].original
        BY <1>8, <3>2
      <3>4. QED
        BY <3>1, <3>2, <3>3, MovieSettled
    <2>2. QED
      BY <1>9, <2>1 DEF MovieConflicts, again
  <1>12. mt2 = mt
    <2>1. \A r \in rows : MovieTitles(m, r, last) = MovieTitles(d, r, last)
      BY <1>7, <1>8, SameTitles
    <2>2. QED
      BY <1>9, <2>1 DEF mt, mt2
  <1>c. p.cast = m.cast
    <2>1. /\ Rows(m.cast) = Rows(d.cast) \cup rows
          /\ \A r \in rows : m.cast[r] = bill[r]
      BY <1>5, <1>b, Upserted
    <2>2. /\ Rows(p.cast) = Rows(m.cast) \cup again
          /\ \A r \in again : p.cast[r] = bill2[r]
          /\ \A r \in Rows(m.cast) : r \notin again => p.cast[r] = m.cast[r]
      BY <1>6, <1>b, Upserted
    <2>3. \A r \in rows : Leads(m, r) = bill[r]
      BY <2>1 DEF Leads
    <2>4. ASSUME NEW r \in rows PROVE p.cast[r] = m.cast[r]
      <3>1. p.cast[r] = bill2[r]
        BY <1>9, <2>2
      <3> DEFINE named == fd.movies[r[1]].leads
      <3>2. bill2[r] = Leads(m, r) \cup named /\ bill[r] = Leads(d, r) \cup named
        BY <1>9, <1>b
      <3>3. Leads(m, r) = bill[r] /\ m.cast[r] = bill[r]
        BY <2>1, <2>3
      <3> HIDE DEF named
      <3>4. QED
        BY <3>1, <3>2, <3>3
    <2>5. IsTable(p.cast) /\ IsTable(m.cast)
      BY <1>5, <1>6, UpsertIsTable
    <2>6. QED
      BY <1>9, <2>1, <2>2, <2>4, <2>5, SameTable
  <1>13. p.conflicts = m.conflicts /\ p.titles = m.titles /\ p.cast = m.cast
    BY <1>5, <1>6, <1>9, <1>11, <1>12, <1>c
  <1>14. p = m
    BY <1>5, <1>6, <1>10, <1>13 DEF Shaped
  <1>15. QED
    BY <1>5, <1>14 DEF p

\* The other two only add to the titles what the versions, which they leave alone, say.
LEMMA TitlesTwice ==
    ASSUME NEW d, NEW last, Shaped(d)
    PROVE  /\ LoadAkas(LoadAkas(d, last), last) = LoadAkas(d, last)
           /\ RekeyTitles(RekeyTitles(d)) = RekeyTitles(d)
  <1> DEFINE akas(x) == UNION {AkaTitles(x, r, last) : r \in {q \in Rows(x.versions) : x.versions[q].imdb}}
             keys(x) == {<<r, x.versions[r].title, "canonical">> : r \in Rows(x.versions)}
             a == LoadAkas(d, last)
             k == RekeyTitles(d)
  <1>1. \A x : /\ LoadAkas(x, last) = [x EXCEPT !.titles = @ \cup akas(x)]
               /\ RekeyTitles(x) = [x EXCEPT !.titles = @ \cup keys(x)]
    BY DEF LoadAkas, RekeyTitles, UpsertTitles
  <1>2. \A x : x.versions = d.versions => akas(x) = akas(d) /\ keys(x) = keys(d)
    <2> SUFFICES ASSUME NEW x, x.versions = d.versions
                 PROVE  akas(x) = akas(d) /\ keys(x) = keys(d)
      OBVIOUS
    <2>1. \A r : AkaTitles(x, r, last) = AkaTitles(d, r, last)
      BY DEF AkaTitles, Siblings, TitleKind
    <2>2. QED
      BY <2>1
  <1> HIDE DEF akas, keys
  <1>3. a = [d EXCEPT !.titles = @ \cup akas(d)] /\ k = [d EXCEPT !.titles = @ \cup keys(d)]
    BY <1>1
  <1> HIDE DEF a, k
  <1>4. /\ Shaped(a) /\ a.versions = d.versions /\ a.titles = d.titles \cup akas(d)
        /\ Shaped(k) /\ k.versions = d.versions /\ k.titles = d.titles \cup keys(d)
    BY <1>3 DEF Shaped
  <1>5. a.titles \cup akas(a) = a.titles /\ k.titles \cup keys(k) = k.titles
    BY <1>2, <1>4
  <1>6. LoadAkas(a, last) = a /\ RekeyTitles(k) = k
    <2>1. /\ LoadAkas(a, last) = [a EXCEPT !.titles = a.titles]
          /\ RekeyTitles(k) = [k EXCEPT !.titles = k.titles]
      BY <1>1, <1>5
    <2>2. QED
      BY <1>4, <2>1 DEF Shaped
  <1>7. QED
    BY <1>6 DEF a, k

----------------------------------------------------------------------------
(* What an ingest leaves to be found.                                      *)

LEMMA TargetLanguage ==
    ASSUME NEW d, NEW sl, NEW v \in SeedVersions
    PROVE  Language[Target(d, sl, v)[1]] = Language[v]
  <1>1. \A r \in ByQid(d, sl, v) \cup ByYear(d, sl, v) : Language[r[1]] = Language[v]
    BY DEF ByQid, ByYear
  <1>2. Target(d, sl, v) \in ByQid(d, sl, v) \cup ByYear(d, sl, v) \cup {<<v, sl.year[v]>>}
    BY DEF Target
  <1>3. <<v, sl.year[v]>>[1] = v
    OBVIOUS
  <1>4. QED
    BY <1>1, <1>2, <1>3

\* What keeps an entry of the slice from being found.
Held(n, sl, v) ==
    OpenConflict(n, Target(n, sl, v), "release_year") \/ n.versions[Target(n, sl, v)].verified

LEMMA EntryFound ==
    ASSUME NEW d, NEW sl \in Slice, NEW fd, Sound(d), EachItsOwnRow(d, sl),
           NEW n, n = IngestSpine(d, sl, fd), VersionsUnique(n),
           NEW v \in SeedVersions, ~ Held(n, sl, v),
           NEW r, r = Target(n, sl, v)
    PROVE  /\ r \in TruthVersions(n)
           /\ n.versions[r].title = sl.title[v]
           /\ Language[r[1]] = Language[v]
           /\ n.versions[r].year = sl.year[v]
  <1>1. Shaped(d) /\ VersionsOK(d) /\ Numbered(d)
    BY DEF Sound
  <1>2. /\ Target(d, sl, v) \in Rows(n.versions)
        /\ n.versions[Target(d, sl, v)] = UpsertVersion(d, sl, fd, v)
        /\ Target(n, sl, v) = Target(d, sl, v)
    BY <1>1, SpineTargets
  <1>3. r = Target(d, sl, v) /\ r \in Rows(n.versions) /\ r \in Row
    BY <1>1, <1>2, TargetIsRow DEF VersionsOK
  <1> DEFINE row == n.versions[r]
  <1>4. row = UpsertVersion(d, sl, fd, v) /\ ~ row.verified
    BY <1>2, <1>3 DEF Held
  <1>5. r \in Rows(d.versions) => d.versions[r] \in VersionRow
    BY <1>1 DEF VersionsOK
  <1>6. "seed" \in row.sources /\ row.title = sl.title[v] /\ row.year = sl.year[v]
    <2> HIDE DEF row
    <2> QED BY <1>3, <1>4, <1>5, UpsertVersionWrites
  <1>7. Numbered(n)
    <2>1. n.conflicts = d.conflicts \cup SpineConflicts(d, sl, fd)
      BY <1>1, SpineChanges
    <2>2. Opens(d, SpineConflicts(d, sl, fd))
      BY <1>1, SpineOpens DEF VersionsOK
    <2>3. QED
      BY <1>1, <2>1, <2>2, AddConflicts
  <1>8. ASSUME NEW c \in n.conflicts, c.about = r, c.status = "open"
        PROVE  FALSE
    <2>1. c.field = "release_year"
      BY <1>3, <1>7, <1>8 DEF Numbered
    <2>2. QED
      BY <1>8, <2>1 DEF Held, OpenConflict, Conflicts
  <1>9. r \in TruthVersions(n)
    BY <1>3, <1>6, <1>8 DEF TruthVersions, Visible
  <1>10. Language[r[1]] = Language[v]
    BY TargetLanguage
  <1>11. QED
    BY <1>6, <1>9, <1>10

\* Every work of the slice is visible: only edges and versions are contested.
LEMMA WorksFound ==
    ASSUME NEW d, NEW sl, NEW fd, Shaped(d), WorksOK(d), NEW n, n = IngestSpine(d, sl, fd)
    PROVE  TruthWorks(n) = WorkKeys
  <1>1. Rows(n.works) = WorkKeys /\ \A w \in WorkKeys : n.works[w] = UpsertWork(d, sl, w)
    <2>1. /\ Rows(n.works) = Rows(d.works) \cup WorkKeys
          /\ \A w \in WorkKeys : n.works[w] = UpsertWork(d, sl, w)
      BY SpineChanges
    <2>2. QED
      BY <2>1 DEF WorksOK
  <1>2. ASSUME NEW w \in WorkKeys PROVE "seed" \in UpsertWork(d, sl, w).sources
    <2>1. CASE w \in Rows(d.works)
      <3>1. d.works[w] \in WorkRow
        BY <2>1 DEF WorksOK
      <3>2. QED
        BY <2>1, <3>1 DEF UpsertWork, MergeSources, SliceSources, WorkRow
    <2>2. CASE w \notin Rows(d.works)
      BY <2>2 DEF UpsertWork, SliceSources
    <2>3. QED
      BY <2>1, <2>2
  <1>3. QED
    BY <1>1, <1>2 DEF TruthWorks

\* The validators of the slice: what a relationship joins.
LEMMA RelatedEnds ==
    ASSUME NEW e \in Related
    PROVE  \/ e[1] \in WorkEdges /\ {e[2], e[3]} \subseteq WorkKeys
           \/ e[1] \in VersionEdges \ WorkEdges /\ {e[2], e[3]} \subseteq SeedVersions
  BY CatalogAssumption DEF SliceOK, WorkEdges, VersionEdges

LEMMA SpineCovers ==
    ASSUME NEW d, NEW sl \in Slice, NEW fd, Sound(d), EachItsOwnRow(d, sl),
           NEW n, n = IngestSpine(d, sl, fd), VersionsUnique(n)
    PROVE  /\ \A v \in SeedVersions \ Covered(n, sl) : Held(n, sl, v)
           /\ \A e \in Related \ CoveredEdges(n, sl) :
                 IF e[1] \in WorkEdges THEN e \notin TruthEdges(n)
                 ELSE <<e[1], Target(n, sl, e[2]), Target(n, sl, e[3])>> \in TruthEdges(n) =>
                         Held(n, sl, e[2]) \/ Held(n, sl, e[3])
  <1>1. \A v \in SeedVersions : ~ Held(n, sl, v) =>
            /\ Target(n, sl, v) \in TruthVersions(n)
            /\ n.versions[Target(n, sl, v)].title = sl.title[v]
            /\ Language[Target(n, sl, v)[1]] = Language[v]
            /\ n.versions[Target(n, sl, v)].year = sl.year[v]
    BY EntryFound
  <1>2. \A v \in SeedVersions \ Covered(n, sl) : Held(n, sl, v)
    BY <1>1 DEF Covered
  <1>3. ASSUME NEW e \in Related, e[1] \in WorkEdges, e \in TruthEdges(n)
        PROVE  e \in CoveredEdges(n, sl)
    <2>1. TruthWorks(n) = WorkKeys
      BY WorksFound DEF Sound
    <2>2. {e[2], e[3]} \subseteq WorkKeys
      BY <1>3, RelatedEnds
    <2>3. QED
      BY <1>3, <2>1, <2>2 DEF CoveredEdges
  <1>4. ASSUME NEW e \in Related, e[1] \notin WorkEdges,
               NEW x, x = <<e[1], Target(n, sl, e[2]), Target(n, sl, e[3])>>, x \in TruthEdges(n),
               ~ Held(n, sl, e[2]), ~ Held(n, sl, e[3])
        PROVE  e \in CoveredEdges(n, sl)
    <2>1. e[2] \in SeedVersions /\ e[3] \in SeedVersions
      BY <1>4, RelatedEnds
    <2>2. /\ x[1] = e[1]
          /\ \A i \in {2, 3} : /\ x[i] \in TruthVersions(n)
                              /\ n.versions[x[i]].title = sl.title[e[i]]
                              /\ Language[x[i][1]] = Language[e[i]]
      <3>1. x[1] = e[1] /\ x[2] = Target(n, sl, e[2]) /\ x[3] = Target(n, sl, e[3])
        BY <1>4
      <3>2. QED
        BY <1>1, <1>4, <2>1, <3>1
    <2>3. QED
      BY <1>4, <2>2 DEF CoveredEdges
  <1>5. QED
    BY <1>2, <1>3, <1>4

----------------------------------------------------------------------------
(* The theorems.                                                           *)

\* Rows have the columns of their tables, and the keys, the shape CHECKs and the foreign
\* keys of the migrations hold after every command, whatever slice was committed and
\* whatever the sources said (alembic 0001, 0002; wikidata.py, build.py, review.py).
THEOREM TypeCorrect == Spec => []TypeOK
  <1>1. CatalogInv => TypeOK
    BY DEF CatalogInv, Sound, WorksOK, VersionsOK, EdgesOK, Numbered, TypeOK, TablesTypeOK
  <1>2. QED
    BY <1>1, CatalogSound, PTL

\* No edge is served on a model's word alone, and a confirmed candidate's edge is there,
\* verified and HIGH, in every order of loads, extractions and reviews (review.py
\* promote, wikidata.py _write_edge, build.py).
THEOREM EdgesHaveEvidence == Spec => []EvidenceBehindEdges
  <1>1. Evidence(db) => EvidenceBehindEdges
    BY DEF Evidence, ConfirmedEdges, Sourced, Reviewed, EvidenceBehindEdges
  <1>2. CatalogInv => Evidence(db)
    BY DEF CatalogInv, Sound, EdgesOK
  <1>3. QED
    BY <1>1, <1>2, CatalogSound, PTL

\* Three loaders open conflicts, each after a check of its own, and still no value is
\* ever contested twice at a time (wikidata.py _open_conflict_exists, tmdb.py
\* _record_conflict, build.py _open_edge_conflict_exists).
THEOREM ContestedOnce == Spec => []OneOpenConflict
  <1>1. CatalogInv => OneOpenConflict
    BY DEF CatalogInv, Sound, Numbered, OneOpen, OneOpenConflict
  <1>2. QED
    BY <1>1, CatalogSound, PTL

\* No command removes a row, changes a decided candidate, takes back a confidence or a
\* verification, rewrites the curated columns of a verified version, drops a source or
\* re-opens a resolved conflict row (the append-only rules of wikidata.py, models.py,
\* review.py).  The theorem does not say that a settled year stays settled: a later ingest
\* may open a new conflict about it, see SettledStaysVisible.
THEOREM DecisionsSurvive == Spec => CuratedKept
  <1>1. [CatalogInv /\ [Next]_vars]_vars => [Kept(db, db')]_vars
    BY CatalogStep
  <1>2. QED
    BY <1>1, CatalogSound, PTL DEF CuratedKept, Spec

\* The franchise of a film is closed under the visible sequel edges, and it does not
\* depend on which of its works is asked for, in every state the loaders and reviewers
\* leave and however many works the slice has (repository.py _franchise_work_ids).
THEOREM FranchiseIsOne == Spec => []OneFranchise
  <1>1. ASSUME CatalogInv PROVE OneFranchise
    <2>1. Sound(db) /\ IntegrityOK(db)
      BY <1>1 DEF CatalogInv
    <2>2. SequelsJoinWorks(db)
      BY <2>1 DEF SequelsJoinWorks, SequelEdges, TruthEdges, IntegrityOK, EdgeShapeOK, EdgeKey,
                  VersionEdges, WorkEdges
    <2> SUFFICES ASSUME NEW w \in Rows(db.works)
                 PROVE  /\ Widen(db, FranchiseWorks(db, w)) = FranchiseWorks(db, w)
                        /\ \A u \in FranchiseWorks(db, w) :
                              FranchiseWorks(db, u) = FranchiseWorks(db, w)
      BY DEF OneFranchise
    <2>3. w \in WorkKeys
      BY <2>1 DEF Sound, WorksOK
    <2>4. Closed(db, FranchiseWorks(db, w))
      BY <2>2, <2>3, FranchiseIsClosure
    <2>5. Widen(db, FranchiseWorks(db, w)) = FranchiseWorks(db, w)
      BY <2>4 DEF Closed, Widen
    <2>6. \A u \in FranchiseWorks(db, w) : FranchiseWorks(db, u) = FranchiseWorks(db, w)
      BY <2>2, <2>3, FranchisesAgree
    <2>7. QED
      BY <2>5, <2>6
  <1>2. QED
    BY <1>1, CatalogSound, PTL

\* "Idempotent" in the docstrings of ingest_spine, enrich_tmdb, build_graph and
\* load_candidates: in every state the commands reach, a command that is run again at once
\* finds its own work and changes nothing (wikidata.py, tmdb.py, imdb.py, rekey_titles.py,
\* extract.py), for an ingest when no two entries of the slice match one row.  The rule
\* builder is the exception: a second run may contest dub edges the first one derived for
\* tracks whose leads are known, and only a third certainly changes nothing (build.py).
THEOREM RerunsAreIdle == Spec => []RerunsChangeNothing
  <1>1. ASSUME CatalogInv PROVE RerunsChangeNothing
    <2>1. slice \in Slice /\ Shaped(db) /\ WorksOK(db) /\ VersionsOK(db)
      BY <1>1, CatalogRunAssumption DEF CatalogInv, Sound
    <2>2. LET once == IngestSpine(db, slice, feed)
          IN  (EachItsOwnRow(db, slice) /\ IntegrityOK(once)) => IngestSpine(once, slice, feed) = once
      BY <2>1, SpineTwice DEF IntegrityOK
    <2>3. LET once  == BuildGraph(db)
              twice == BuildGraph(once)
              late  == twice.conflicts \ once.conflicts
          IN  /\ twice = [once EXCEPT !.conflicts = @ \cup late]
              /\ \A c \in late : c.about \in DerivedDubs(db) /\ Leads(db, c.about[2]) # {}
              /\ BuildGraph(twice) = twice
      BY <2>1, BuildTwice
    <2>4. \A last \in LanguageIndexes(db) :
             LET enriched == EnrichTmdb(db, feed, last)
                 loaded   == LoadAkas(db, last)
             IN  /\ EnrichTmdb(enriched, feed, last) = enriched
                 /\ LoadAkas(loaded, last) = loaded
      BY <2>1, EnrichTwice, TitlesTwice
    <2>5. LET once == RekeyTitles(db) IN RekeyTitles(once) = once
      BY <2>1, TitlesTwice
    <2>6. LET found == TitleBindings(db)
          IN  \A bound, again \in found :
                 LET once == LoadCandidates(db, artifact, bound)
                 IN  LoadCandidates(once, artifact, again) = once
      BY <2>1, LoadTwice
    <2>7. QED
      BY <2>2, <2>3, <2>4, <2>5, <2>6 DEF RerunsChangeNothing
  <1>2. QED
    BY <1>1, CatalogSound, PTL

\* A run of the ingest that commits leaves every entry of the slice to be found under
\* its title, language and year, unless its year is contested or a human verified the
\* row, and the report then counts every visible relationship of the slice (report.py
\* compute_version_coverage, compute_edge_coverage; wikidata.py ingest_spine).
THEOREM IngestLeavesFound == Spec => []IngestCovers
  <1>1. ASSUME CatalogInv PROVE IngestCovers
    <2>1. slice \in Slice /\ Sound(db)
      BY <1>1, CatalogRunAssumption DEF CatalogInv
    <2>2. QED
      BY <2>1, SpineCovers DEF IngestCovers, Held, IntegrityOK
  <1>2. QED
    BY <1>1, CatalogSound, PTL
=============================================================================
