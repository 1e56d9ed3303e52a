--------------------------- MODULE WorkSurfaceSync ---------------------------
(***************************************************************************)
(* Synchronisation with the work surface: /project --catalog-sync writes   *)
(* the row of a project in the table Projects                              *)
(* (adapters/feishu/src/project-catalog-sync.ts), /project --surface-sync  *)
(* and the projection observer write its row in Work Surface Snapshots     *)
(* (adapters/work-surfaces/feishu/src).                                    *)
(*                                                                         *)
(* One action is the code between two awaits.  The tables are remote: a    *)
(* call of lark-cli is a process of its own, and its effect may take place *)
(* although the call fails; an answer the adapters do not recognise counts *)
(* as a success without content.  Nothing stops two synchronisations from  *)
(* running at once, and humans edit the tables and the project files.      *)
(***************************************************************************)
EXTENDS Naturals, FiniteSets

CONSTANTS
  NULL,
  Projects,      \* registered projects
  Jobs,          \* identities of synchronisations
  Ids,           \* bound on record ids, for both tables
  Titles,        \* what index.yaml and project.yaml may say of a project
  CatalogPage,   \* how many records the catalogue sync asks for
  SurfacePage,   \* how many the surface sync asks for
  Catalogs,      \* what the table Projects may hold at first
  MaxChanges,    \* bound on publications and on what humans do
  MaxFaults      \* bound on calls that fail, and on listings that are not understood

\* Rows that a human has deleted keep their record id, which is not used again.
CatalogRow == [project : Projects, title : Titles, archived : BOOLEAN, live : BOOLEAN]
SurfaceRow ==
  [project : Projects, anchor : Ids, snapshot : 1..MaxChanges, live : BOOLEAN]

ASSUME SyncAssumption ==
  /\ IsFiniteSet(Ids)
  /\ CatalogPage \in Nat /\ SurfacePage \in Nat
  /\ MaxChanges \in Nat /\ MaxFaults \in Nat
  /\ NULL \notin Projects \cup Jobs \cup Ids \cup CatalogRow \cup SurfaceRow
  /\ Catalogs \subseteq [Ids -> CatalogRow \cup {NULL}]

VARIABLES
  entry, detail,   \* index.yaml and project.yaml of each project
  snapshot,        \* the latest snapshot of each project, 0 before the first
  catalog,         \* the table Projects
  surface,         \* the table Work Surface Snapshots
  pc,              \* where each synchronisation is
  kind,            \* "catalog" or "surface"
  project,         \* its project
  apply,           \* whether it writes
  local,           \* the title or the snapshot it has read
  planned,         \* surface syncs that have made their first plan
  anchor,          \* the row of Projects a surface sync refers to
  found,           \* the row it updates, NULL when it creates one
  record,          \* the record id it reports
  overtaken,       \* history: syncs since whose first read others changed the
                   \* rows of their project
  misled,          \* history: syncs whose last listing missed rows of the table
  changes, faults

files == <<entry, detail, snapshot>>
tables == <<catalog, surface>>
request == <<kind, project, apply>>
reads == <<local, planned, anchor, found>>
history == <<overtaken, misled>>
budget == <<changes, faults>>
vars == <<files, tables, pc, request, reads, record, history, budget>>

Init ==
  /\ entry \in [Projects -> Titles] /\ detail = entry
  /\ snapshot = [p \in Projects |-> 0]
  /\ catalog \in Catalogs
  /\ surface = [r \in Ids |-> NULL]
  /\ pc = [j \in Jobs |-> "idle"]
  /\ kind = [j \in Jobs |-> NULL] /\ project = [j \in Jobs |-> NULL]
  /\ apply = [j \in Jobs |-> FALSE]
  /\ local = [j \in Jobs |-> NULL] /\ planned = {}
  /\ anchor = [j \in Jobs |-> NULL] /\ found = [j \in Jobs |-> NULL]
  /\ record = [j \in Jobs |-> NULL]
  /\ overtaken = {} /\ misled = {}
  /\ changes = 0 /\ faults = 0

Goto(j, label) == pc' = [pc EXCEPT ![j] = label]

Change == changes < MaxChanges /\ changes' = changes + 1
Fault == faults < MaxFaults /\ faults' = faults + 1

Started(j, k, p) ==
  /\ pc[j] = "idle"
  /\ kind' = [kind EXCEPT ![j] = k]
  /\ project' = [project EXCEPT ![j] = p]
  /\ \E a \in BOOLEAN : apply' = [apply EXCEPT ![j] = a]

\* The rows of project p have changed, for every sync but j that has read.
Overtakes(j, p) ==
  overtaken' = overtaken \cup
    {k \in Jobs \ {j} : project[k] = p /\ pc[k] \notin {"idle", "entry", "snapshot"}}
-----------------------------------------------------------------------------
(* Listings of a table. *)

Used(table) == {r \in Ids : table[r] # NULL}
Live(table) == {r \in Used(table) : table[r].live}

\* What a table of which listRecords asks for one page answers.
Listings(table, page) ==
  {s \in SUBSET Live(table) : /\ Cardinality(s) <= page
                              /\ Cardinality(s) < page => s = Live(table)}

\* listRecords: an empty answer, or one of an unknown shape, is an empty
\* listing, and records of an unknown shape are left out of it.
Sees(j, seen, table, page) ==
  IF seen \in Listings(table, page)
  THEN misled' = misled \ {j} /\ UNCHANGED faults
  ELSE misled' = misled \cup {j} /\ Fault

RowsOf(table, seen, p) == {r \in seen : table[r].project = p}
-----------------------------------------------------------------------------
(* Catalogue sync. *)

\* The slash command, for the project it names, the bound one, or the only one
\* that is close to what it names.
Command(j) ==
  /\ \E k \in {"catalog", "surface"}, p \in Projects :
       /\ Started(j, k, p)
       /\ Goto(j, IF k = "catalog" THEN "entry" ELSE "snapshot")
  /\ UNCHANGED <<files, tables, reads, record, history, budget>>

\* getProjectById
ReadEntry(j) ==
  /\ pc[j] = "entry"
  /\ local' = [local EXCEPT ![j] = entry[project[j]]]
  /\ Goto(j, "detail")
  /\ UNCHANGED <<files, tables, request, planned, anchor, found, record, history, budget>>

\* loadProjectDefinition, and the comparison of the two files.
ReadDetail(j) ==
  /\ pc[j] = "detail"
  /\ Goto(j, IF detail[project[j]] = local[j] THEN "find" ELSE "failed")
  /\ UNCHANGED <<files, tables, request, reads, record, history, budget>>

\* Mutant: a row of the project is good enough.
AfterPlanByKey(j, r) == IF ~apply[j] \/ r # NULL THEN "done" ELSE "write"

\* What becomes of a plan that would update row r, or create one.
AfterPlan(j, r) ==
  IF ~apply[j] \/ (r # NULL /\ catalog[r].title = local[j]) THEN "done" ELSE "write"

\* findProjectRow and planProjectSync: several rows of the project are left to
\* a human.
Find(j) ==
  /\ pc[j] = "find"
  /\ \E seen \in SUBSET Live(catalog) :
       /\ Sees(j, seen, catalog, CatalogPage)
       /\ LET rows == RowsOf(catalog, seen, project[j])
              row == IF rows = {} THEN NULL ELSE CHOOSE r \in rows : TRUE
          IN IF Cardinality(rows) > 1
             THEN Goto(j, "failed") /\ UNCHANGED <<found, record>>
             ELSE /\ found' = [found EXCEPT ![j] = row]
                  /\ record' = [record EXCEPT ![j] = row]
                  /\ Goto(j, AfterPlan(j, row))
  /\ UNCHANGED <<files, tables, request, local, planned, anchor, overtaken, changes>>

\* The answer of a write to row r, unless it is lost: the id of the row, or, of
\* an answer without one, the id in the plan, which is NULL for a creation.
Answered(j, r) ==
  \/ /\ \E id \in {r, found[j]} : record' = [record EXCEPT ![j] = id]
     /\ Goto(j, "done")
     /\ UNCHANGED faults
  \/ Fault /\ Goto(j, "failed") /\ UNCHANGED record

\* Mutant: an update writes all that a creation does.
CatalogUpdateAll(j, row) == [row EXCEPT !.title = local[j], !.archived = FALSE]

\* The fields an update writes; whether a project is archived is a human's.
CatalogUpdate(j, row) == [row EXCEPT !.title = local[j]]

\* applyProjectSync
WriteCatalog(j) ==
  /\ pc[j] = "write" /\ kind[j] = "catalog"
  /\ \E r \in (IF found[j] = NULL THEN Ids \ Used(catalog) ELSE Live(catalog) \cap {found[j]}) :
       /\ catalog' = [catalog EXCEPT ![r] =
            IF found[j] # NULL THEN CatalogUpdate(j, @)
            ELSE [project |-> project[j], title |-> local[j], archived |-> FALSE,
                  live |-> TRUE]]
       /\ Answered(j, r)
  /\ Overtakes(j, project[j])
  /\ UNCHANGED <<files, surface, request, reads, misled, changes>>
-----------------------------------------------------------------------------
(* Surface sync. *)

\* Mutant: a snapshot that is not there is synchronised.
ReadSnapshotUnchecked(j) ==
  /\ pc[j] = "snapshot"
  /\ local' = [local EXCEPT ![j] = snapshot[project[j]]]
  /\ Goto(j, "anchor")
  /\ UNCHANGED <<files, tables, request, planned, anchor, found, record, history, budget>>

\* Mutant: a snapshot that was cached.
ReadCachedSnapshot(j) ==
  /\ pc[j] = "snapshot"
  /\ IF snapshot[project[j]] = 0
     THEN Goto(j, "failed") /\ UNCHANGED local
     ELSE /\ Goto(j, "anchor")
          /\ \E s \in 1..snapshot[project[j]] : local' = [local EXCEPT ![j] = s]
  /\ UNCHANGED <<files, tables, request, planned, anchor, found, record, history, budget>>

\* readWorkSurfaceProjectionSnapshot
ReadSnapshot(j) ==
  /\ pc[j] = "snapshot"
  /\ IF snapshot[project[j]] = 0
     THEN Goto(j, "failed") /\ UNCHANGED local
     ELSE Goto(j, "anchor") /\ local' = [local EXCEPT ![j] = snapshot[project[j]]]
  /\ UNCHANGED <<files, tables, request, planned, anchor, found, record, history, budget>>

\* Mutant: the relation takes any row of the table.
FindAnyAnchor(j) ==
  /\ pc[j] = "anchor"
  /\ \E seen \in SUBSET Live(catalog) :
       /\ Sees(j, seen, catalog, SurfacePage)
       /\ IF seen = {}
          THEN Goto(j, "failed") /\ UNCHANGED anchor
          ELSE /\ Goto(j, "match")
               /\ \E r \in seen : anchor' = [anchor EXCEPT ![j] = r]
  /\ UNCHANGED <<files, tables, request, local, planned, found, record, overtaken, changes>>

\* findProjectRecord: a project without a row in the catalogue is not shown.
FindAnchor(j) ==
  /\ pc[j] = "anchor"
  /\ \E seen \in SUBSET Live(catalog) :
       /\ Sees(j, seen, catalog, SurfacePage)
       /\ LET rows == RowsOf(catalog, seen, project[j])
          IN IF rows = {}
             THEN Goto(j, "failed") /\ UNCHANGED anchor
             ELSE /\ Goto(j, "match")
                  /\ \E r \in rows : anchor' = [anchor EXCEPT ![j] = r]
  /\ UNCHANGED <<files, tables, request, local, planned, found, record, overtaken, changes>>

\* Mutant: the row is found by its relation.
MatchByAnchor(j) ==
  /\ pc[j] = "match"
  /\ \E seen \in SUBSET Live(surface) :
       /\ Sees(j, seen, surface, SurfacePage)
       /\ LET rows == {r \in seen : surface[r].anchor = anchor[j]}
          IN \E r \in (IF rows = {} THEN {NULL} ELSE rows) :
               found' = [found EXCEPT ![j] = r]
  /\ planned' = planned \cup {j}
  /\ Goto(j, IF ~apply[j] THEN "done" ELSE IF j \in planned THEN "write" ELSE "anchor")
  /\ UNCHANGED <<files, tables, request, local, anchor, record, overtaken, changes>>

\* findProjectionRecord, which takes the first of several.  The first plan is
\* for the report; a sync that applies makes a second one to write from.
Match(j) ==
  /\ pc[j] = "match"
  /\ \E seen \in SUBSET Live(surface) :
       /\ Sees(j, seen, surface, SurfacePage)
       /\ LET rows == RowsOf(surface, seen, project[j])
          IN \E r \in (IF rows = {} THEN {NULL} ELSE rows) :
               found' = [found EXCEPT ![j] = r]
  /\ planned' = planned \cup {j}
  /\ Goto(j, IF ~apply[j] THEN "done" ELSE IF j \in planned THEN "write" ELSE "anchor")
  /\ UNCHANGED <<files, tables, request, local, anchor, record, overtaken, changes>>

\* upsertSnapshot
WriteSurface(j) ==
  /\ pc[j] = "write" /\ kind[j] = "surface"
  /\ \E r \in (IF found[j] = NULL THEN Ids \ Used(surface) ELSE Live(surface) \cap {found[j]}) :
       /\ surface' = [surface EXCEPT ![r] =
            [project |-> project[j], anchor |-> anchor[j], snapshot |-> local[j],
             live |-> TRUE]]
       /\ Answered(j, r)
  /\ Overtakes(j, project[j])
  /\ UNCHANGED <<files, catalog, request, reads, misled, changes>>

\* A call fails without effect: of lark-cli, because it exits with an error,
\* answers ok = false or what is not JSON, or lists no such table or field; or
\* of the configuration or a project file.
CallFails(j) ==
  /\ pc[j] \in {"entry", "detail", "find", "snapshot", "anchor", "match", "write"}
  /\ Fault
  /\ Goto(j, "failed")
  /\ UNCHANGED <<files, tables, request, reads, record, history, changes>>

\* The row to update has been deleted.
RowIsGone(j) ==
  /\ pc[j] = "write" /\ found[j] # NULL
  /\ found[j] \notin Live(IF kind[j] = "catalog" THEN catalog ELSE surface)
  /\ Goto(j, "failed")
  /\ UNCHANGED <<files, tables, request, reads, record, history, budget>>
-----------------------------------------------------------------------------
(* The environment. *)

\* A message publishes a snapshot, and hands it to the observer if there is one.
Publish(p) ==
  /\ Change
  /\ snapshot' = [snapshot EXCEPT ![p] = @ + 1]
  /\ \/ UNCHANGED <<pc, request, local>>
     \/ \E j \in Jobs : /\ Started(j, "surface", p)
                        /\ local' = [local EXCEPT ![j] = snapshot'[p]]
                        /\ Goto(j, "anchor")
  /\ UNCHANGED <<entry, detail, tables, planned, anchor, found, record, history, faults>>

\* A human retitles a project in one of its files.
EditFile(p) ==
  /\ Change
  /\ \E t \in Titles :
       \/ entry[p] # t /\ entry' = [entry EXCEPT ![p] = t] /\ UNCHANGED detail
       \/ detail[p] # t /\ detail' = [detail EXCEPT ![p] = t] /\ UNCHANGED entry
  /\ UNCHANGED <<snapshot, tables, pc, request, reads, record, history, faults>>

\* A human archives a project, or deletes a row.
EditTable(r) ==
  /\ Change
  /\ \/ /\ r \in Live(catalog)
        /\ \/ catalog' = [catalog EXCEPT ![r].archived = TRUE]
           \/ catalog' = [catalog EXCEPT ![r].live = FALSE]
        /\ Overtakes(NULL, catalog[r].project)
        /\ UNCHANGED surface
     \/ /\ r \in Live(surface)
        /\ surface' = [surface EXCEPT ![r].live = FALSE]
        /\ Overtakes(NULL, surface[r].project)
        /\ UNCHANGED catalog
  /\ UNCHANGED <<files, pc, request, reads, record, misled, faults>>

Step(j) ==
  \/ Command(j) \/ ReadEntry(j) \/ ReadDetail(j) \/ Find(j) \/ WriteCatalog(j)
  \/ ReadSnapshot(j) \/ FindAnchor(j) \/ Match(j) \/ WriteSurface(j)
  \/ CallFails(j) \/ RowIsGone(j)

Next ==
  \/ \E j \in Jobs : Step(j)
  \/ \E p \in Projects : Publish(p) \/ EditFile(p)
  \/ \E r \in Ids : EditTable(r)

Spec == Init /\ [][Next]_vars
-----------------------------------------------------------------------------
(* Properties. *)

\* Every synchronisation has a place and a project, the tables hold rows, and
\* one that writes has read what it writes.
TypeOK ==
  /\ entry \in [Projects -> Titles] /\ detail \in [Projects -> Titles]
  /\ snapshot \in [Projects -> 0..MaxChanges]
  /\ catalog \in [Ids -> CatalogRow \cup {NULL}]
  /\ surface \in [Ids -> SurfaceRow \cup {NULL}]
  /\ \A j \in Jobs :
       /\ pc[j] # "idle" => project[j] \in Projects /\ kind[j] \in {"catalog", "surface"}
       /\ pc[j] \in {"find", "write"} /\ kind[j] = "catalog" => local[j] \in Titles
       /\ pc[j] \in {"anchor", "match", "write"} /\ kind[j] = "surface" =>
            local[j] \in 1..MaxChanges
       /\ pc[j] = "write" /\ kind[j] = "surface" => anchor[j] \in Ids
  /\ overtaken \subseteq Jobs /\ misled \subseteq Jobs

\* Every row of the surface hangs on a row of its own project in the catalogue,
\* which a human may have deleted since, and shows a snapshot that project has
\* published, whatever the synchronisations do to each other.
SurfaceIsAnchored ==
  \A r \in Used(surface) :
    LET row == surface[r]
    IN /\ row.anchor \in Used(catalog)
       /\ catalog[row.anchor].project = row.project
       /\ row.snapshot <= snapshot[row.project]

\* j writes, and nobody else has changed the rows of its project since it began
\* to read.
WritesUndisturbed(j) == pc[j] = "write" /\ pc'[j] # "write" /\ j \notin overtaken

\* No table has outgrown the page that is read of it.
TablesFit ==
  /\ Cardinality(Used(catalog)) <= CatalogPage
  /\ Cardinality(Used(surface)) <= SurfacePage

\* One row per project: in a table that fits into a page, a synchronisation
\* creates a row beside another of its project only when others have changed the
\* rows of the project since it began to read, or when the last answer it had to
\* a listing was empty or not understood.  So a retry of a write whose answer was
\* lost makes no second row.
CreatesOnlyWhatIsMissing ==
  [][\A j \in Jobs : WritesUndisturbed(j) /\ j \notin misled /\ TablesFit =>
       /\ \A r \in Ids \ Used(catalog) :
            catalog'[r] # NULL => RowsOf(catalog, Live(catalog), project[j]) = {}
       /\ \A r \in Ids \ Used(surface) :
            surface'[r] # NULL => RowsOf(surface, Live(surface), project[j]) = {}]_vars

\* The surface shows the latest snapshot: a row goes back to an older one only
\* by a synchronisation that was overtaken.
SurfaceGoesForward ==
  [][\A j \in Jobs : WritesUndisturbed(j) =>
       \A r \in Live(surface) : surface[r].snapshot <= surface'[r].snapshot]_vars

\* A row that a human has archived or deleted stays so, also when that happened
\* between the lookup and the write of a synchronisation.  And a project all of
\* whose rows are archived gets no row that is not, unless a synchronisation was
\* overtaken, or did not understand the listing it went by.
ArchivedStaysArchived ==
  [][/\ \A r \in Used(catalog) : /\ catalog[r].archived => catalog'[r].archived
                                 /\ catalog'[r].live => catalog[r].live
     /\ \A j \in Jobs : WritesUndisturbed(j) /\ j \notin misled /\ TablesFit =>
          LET rows == RowsOf(catalog, Live(catalog), project[j])
          IN rows # {} /\ (\A r \in rows : catalog[r].archived) =>
               \A r \in RowsOf(catalog, Live(catalog), project[j])' : catalog'[r].archived]_vars

\* After a synchronisation that reports success, and that nobody has overtaken, a
\* row of its project holds what it read, and the report names that row, or, for
\* a row it has created, none.
ReportIsTrue ==
  \A j \in Jobs : pc[j] = "done" /\ apply[j] /\ j \notin overtaken =>
    LET table == IF kind[j] = "catalog" THEN catalog ELSE surface
    IN \E r \in RowsOf(table, Live(table), project[j]) :
         /\ local[j] = (IF kind[j] = "catalog" THEN table[r].title ELSE table[r].snapshot)
         /\ record[j] = r \/ (record[j] = NULL /\ found[j] = NULL)

\* What feishu-work-surface-adapter-scope-note.md says of Work Surface Snapshots:
\* one row per project.
OneRowPerProject ==
  \A p \in Projects : Cardinality(RowsOf(surface, Live(surface), p)) <= 1
=============================================================================
