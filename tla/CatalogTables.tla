--------------------------- MODULE CatalogTables ---------------------------
(***************************************************************************)
(* The tables of the catalogue as the migrations create them and the views *)
(* every query reads.  A database is a record of tables:                   *)
(*   works       work key -> work row                                      *)
(*   versions    row -> version row; a row is named after the seed entry   *)
(*               and the year it was inserted for, its columns may change  *)
(*   edges       <<type, src, dst>> -> edge row (the unique constraint)    *)
(*   conflicts   the conflict rows: what they are about, which field, which*)
(*               of its conflicts in order of opening, and the status      *)
(*   candidates  <<type, source title, target title, page>> -> its row     *)
(*   titles      the <<row, title, kind>> of the cross-script title index  *)
(*   cast        row -> the leads its TMDB credits have ever named         *)
(* Provenance is a set of source names: "seed" is the curated file,        *)
(* "human" a reviewer.                                                     *)
(***************************************************************************)
EXTENDS Integers, FiniteSets

CONSTANTS
    SeedVersions,   \* keys of the versions in the curated slice
    WorkKeys,       \* keys of its works
    Years,          \* release years, small numbers in order
    Titles,         \* title texts
    WorkOf,         \* SeedVersions -> WorkKeys
    WorkTitle,      \* WorkKeys -> Titles, and the year of each: they tell works apart
    WorkYear,
    Language,       \* SeedVersions -> language
    Country,        \* SeedVersions -> "indian" or "foreign"
    Title,          \* SeedVersions -> Titles
    Originals,      \* the versions the slice flags as originals
    Related,        \* <<type, v, u>> over versions or works: the relationships it states
    Null            \* an unbound end, an edge not promoted yet

Row == SeedVersions \X Years

\* What the curated file says of each version: its year, its title, and which
\* versions have a Wikidata identifier.
Slice == [year : [SeedVersions -> Years], title : [SeedVersions -> Titles],
          qid : SUBSET SeedVersions]

VersionEdges == {"is_remake_of", "is_official_dub_of", "is_unofficial_remake_of"}
WorkEdges == {"is_sequel_of", "based_on"}

Source == {"seed", "wikidata", "tmdb", "imdb", "wikipedia", "rule", "human"}

WorkRow == [qid: BOOLEAN, conf: {"HIGH", "MEDIUM"}, sources: SUBSET Source]

VersionRow == [title: Titles, year: Years, qid: BOOLEAN, tmdb: BOOLEAN, imdb: BOOLEAN,
               original: BOOLEAN, conf: {"HIGH", "MEDIUM"}, verified: BOOLEAN,
               sources: SUBSET Source]

EdgeRow == [conf: {"HIGH", "MEDIUM"}, verified: BOOLEAN, sources: SUBSET Source]

\* The shape CHECK and the self-edge CHECK of the edges table.
EdgeKey == (VersionEdges \X Row \X Row) \cup (WorkEdges \X WorkKeys \X WorkKeys)
EdgeShapeOK(e) == e \in EdgeKey /\ e[2] # e[3]

CandidateRow == [src: Row \cup {Null}, dst: Row \cup {Null},
                 status: {"proposed", "confirmed", "rejected"}, edge: EdgeKey \cup {Null}]

Field == {"release_year", "original_language", "edge_type"}

ConflictRow == [about: Row \cup EdgeKey, field: Field, nth: Nat \ {0}, status: {"open", "resolved"}]

TitleKey == Row \X Titles \X {"canonical", "aka", "dub"}

\* The validators of the slice (seed.py): a version is an original or states what it
\* derives from within its work, a film has an original and a literary source no version,
\* and lineage leads from films to films or to literary sources.
SliceOK ==
    LET films == {WorkOf[v] : v \in SeedVersions}
    IN  /\ \A v \in SeedVersions :
              (v \in Originals) # (\E e \in Related : e[1] \in VersionEdges /\ e[2] = v)
        /\ \A w \in films : \E v \in Originals : WorkOf[v] = w
        /\ \A e \in Related :
              \/ e[1] \in VersionEdges /\ {e[2], e[3]} \subseteq SeedVersions /\ e[2] # e[3]
                   /\ WorkOf[e[2]] = WorkOf[e[3]]
              \/ e[1] = "is_sequel_of" /\ {e[2], e[3]} \subseteq films
              \/ e[1] = "based_on" /\ e[2] \in films /\ e[3] \in WorkKeys \ films

ASSUME CatalogAssumption ==
    /\ Years \subseteq Nat \ {0}
    /\ WorkOf \in [SeedVersions -> WorkKeys]
    /\ WorkTitle \in [WorkKeys -> Titles]
    /\ WorkYear \in [WorkKeys -> Nat \ {0}]
    /\ \A w, u \in WorkKeys : (WorkTitle[w] = WorkTitle[u] /\ WorkYear[w] = WorkYear[u]) => w = u
    /\ Title \in [SeedVersions -> Titles]
    /\ Country \in [SeedVersions -> {"indian", "foreign"}]
    /\ Originals \subseteq SeedVersions
    /\ SliceOK
    /\ IsFiniteSet(WorkKeys)
    /\ Null \notin Row \cup WorkKeys \cup EdgeKey

EmptyDb == [works |-> <<>>, versions |-> <<>>, edges |-> <<>>, conflicts |-> {},
            candidates |-> <<>>, titles |-> {}, cast |-> <<>>]

----------------------------------------------------------------------------
(* Tables are functions that grow.                                         *)

Rows(table) == DOMAIN table

\* INSERT or UPDATE of the rows `new` holds.
Upsert(table, new) ==
    [k \in DOMAIN table \cup DOMAIN new |-> IF k \in DOMAIN new THEN new[k] ELSE table[k]]

\* merge_sources_jsonb: provenance is a union, the first entry of a source is kept.
MergeSources(existing, incoming) == existing \cup incoming

\* The leads of a version: its rows in version_cast.
Leads(db, r) == IF r \in Rows(db.cast) THEN db.cast[r] ELSE {}

Conflicts(db, about, field) == {c \in db.conflicts : c.about = about /\ c.field = field}

OpenConflict(db, about, field) == \E c \in Conflicts(db, about, field) : c.status = "open"

AnyConflict(db, about, field) == Conflicts(db, about, field) # {}

NewConflict(db, about, field, status) ==
    [about |-> about, field |-> field, status |-> status,
     nth |-> Cardinality(Conflicts(db, about, field)) + 1]

----------------------------------------------------------------------------
(* The ground-truth views: a row is visible when it has provenance and no  *)
(* open conflict names it.  Candidates are in no view.                     *)

Visible(db, id, sources) ==
    /\ sources # {}
    /\ ~ \E c \in db.conflicts : c.about = id /\ c.status = "open"

TruthWorks(db) == {w \in Rows(db.works) : db.works[w].sources # {}}
TruthVersions(db) == {v \in Rows(db.versions) : Visible(db, v, db.versions[v].sources)}
TruthEdges(db) == {e \in Rows(db.edges) : Visible(db, e, db.edges[e].sources)}

\* golden_eligible: fixtures take verified or HIGH records only.
GoldenEligible(row) == row.conf = "HIGH" \/ row.verified

----------------------------------------------------------------------------
(* What PostgreSQL refuses: a transaction that ends in such a state raises *)
(* IntegrityError and leaves the database as it was.                       *)

VersionsUnique(db) ==
    \A v, u \in Rows(db.versions) :
        /\ (WorkOf[v[1]] = WorkOf[u[1]] /\ Language[v[1]] = Language[u[1]]
              /\ db.versions[v].year = db.versions[u].year) => v = u
        /\ (db.versions[v].qid /\ db.versions[u].qid /\ v[1] = u[1]) => v = u

EndpointsExist(db) ==
    \A e \in Rows(db.edges) :
        {e[2], e[3]} \subseteq IF e[1] \in VersionEdges THEN Rows(db.versions) ELSE Rows(db.works)

IntegrityOK(db) ==
    /\ VersionsUnique(db)
    /\ EndpointsExist(db)
    /\ \A e \in Rows(db.edges) : EdgeShapeOK(e)

TablesTypeOK(db) ==
    /\ Rows(db.works) \subseteq WorkKeys /\ \A w \in Rows(db.works) : db.works[w] \in WorkRow
    /\ Rows(db.versions) \subseteq Row /\ \A v \in Rows(db.versions) : db.versions[v] \in VersionRow
    /\ \A e \in Rows(db.edges) : db.edges[e] \in EdgeRow
    /\ db.conflicts \subseteq ConflictRow
    /\ \A c \in Rows(db.candidates) : db.candidates[c] \in CandidateRow
    /\ db.titles \subseteq TitleKey
    /\ Rows(db.cast) \subseteq Rows(db.versions)
============================================================================
