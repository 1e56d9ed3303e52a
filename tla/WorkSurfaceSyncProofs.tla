------------------------ MODULE WorkSurfaceSyncProofs ------------------------
(* Proofs about WorkSurfaceSync, for any projects, jobs, finite set of record *)
(* ids, titles, pages, initial catalogues and bounds.                         *)
EXTENDS WorkSurfaceSync, FiniteSetTheorems, TLAPS

-----------------------------------------------------------------------------
(* Frames: what a step leaves alone. *)

\* Every job has its entry in every table.
Shape ==
  /\ DOMAIN pc = Jobs /\ DOMAIN kind = Jobs /\ DOMAIN project = Jobs
  /\ DOMAIN apply = Jobs /\ DOMAIN local = Jobs /\ DOMAIN anchor = Jobs
  /\ DOMAIN found = Jobs /\ DOMAIN record = Jobs

\* A step of one job leaves the locals of the others alone.
Apart(k) ==
  /\ pc'[k] = pc[k] /\ kind'[k] = kind[k] /\ project'[k] = project[k]
  /\ apply'[k] = apply[k] /\ local'[k] = local[k] /\ anchor'[k] = anchor[k]
  /\ found'[k] = found[k] /\ record'[k] = record[k]
  /\ (k \in misled') = (k \in misled)

LEMMA StepFrame ==
  ASSUME Shape, NEW j \in Jobs, Step(j)
  PROVE  Shape' /\ \A k \in Jobs \ {j} : Apart(k)
<1> USE DEF Shape, Apart, Goto, request, reads, files, tables, history, budget
<1>1. CASE Command(j)
  BY <1>1 DEF Command, Started
<1>2. CASE ReadEntry(j) \/ ReadDetail(j) \/ CallFails(j) \/ RowIsGone(j)
  BY <1>2 DEF ReadEntry, ReadDetail, CallFails, RowIsGone
<1>3. CASE Find(j)
  BY <1>3 DEF Find, Sees
<1>4. CASE WriteCatalog(j)
  BY <1>4 DEF WriteCatalog, Answered
<1>5. CASE ReadSnapshot(j)
  BY <1>5 DEF ReadSnapshot
<1>6. CASE FindAnchor(j)
  BY <1>6 DEF FindAnchor, Sees
<1>7. CASE Match(j)
  BY <1>7 DEF Match, Sees
<1>8. CASE WriteSurface(j)
  BY <1>8 DEF WriteSurface, Answered
<1>9. QED
  BY <1>1, <1>2, <1>3, <1>4, <1>5, <1>6, <1>7, <1>8 DEF Step

\* What publication does to the jobs: it starts one, or none.
LEMMA PublishFrame ==
  ASSUME Shape, NEW p \in Projects, Publish(p)
  PROVE  /\ Shape'
         /\ \A k \in Jobs : \/ Apart(k)
                            \/ /\ pc[k] = "idle" /\ pc'[k] = "anchor"
                               /\ kind'[k] = "surface" /\ project'[k] = p
                               /\ local'[k] = snapshot'[p]
BY DEF Shape, Apart, Publish, Started, Goto, request, history

\* What the others do to the jobs: nothing.
LEMMA RestFrame ==
  ASSUME Shape,
         \/ \E p \in Projects : EditFile(p)
         \/ \E r \in Ids : EditTable(r)
         \/ UNCHANGED vars
  PROVE  Shape' /\ \A k \in Jobs : Apart(k)
BY DEF Shape, Apart, EditFile, EditTable, request, reads, history, vars
-----------------------------------------------------------------------------
(* Types. *)

Tables ==
  /\ entry \in [Projects -> Titles] /\ detail \in [Projects -> Titles]
  /\ snapshot \in [Projects -> 0..MaxChanges]
  /\ catalog \in [Ids -> CatalogRow \cup {NULL}]
  /\ surface \in [Ids -> SurfaceRow \cup {NULL}]
  /\ overtaken \subseteq Jobs /\ misled \subseteq Jobs
  /\ changes \in 0..MaxChanges
  /\ \A p \in Projects : snapshot[p] <= changes

\* What a synchronisation has read by the time it comes to a place.
Placed(j) ==
  /\ pc[j] # "idle" => project[j] \in Projects /\ kind[j] \in {"catalog", "surface"}
  /\ pc[j] \in {"entry", "detail", "find"} => kind[j] = "catalog"
  /\ pc[j] \in {"snapshot", "anchor", "match"} => kind[j] = "surface"
  /\ pc[j] \in {"find", "write"} /\ kind[j] = "catalog" => local[j] \in Titles
  /\ pc[j] \in {"anchor", "match", "write"} /\ kind[j] = "surface" =>
       local[j] \in 1..MaxChanges
  /\ pc[j] \in {"match", "write"} /\ kind[j] = "surface" => anchor[j] \in Ids

Typed == Shape /\ Tables /\ \A j \in Jobs : Placed(j)

LEMMA TypedInit == Init => Typed
BY SyncAssumption DEF Init, Typed, Shape, Tables, Placed

LEMMA PlacedStays == ASSUME NEW k, Placed(k), Apart(k) PROVE Placed(k)'
BY DEF Placed, Apart

LEMMA TypedStep == Typed /\ [Next]_vars => Typed'
<1> SUFFICES ASSUME Typed, [Next]_vars PROVE Typed'
  OBVIOUS
<1>1. ASSUME NEW j \in Jobs, Step(j) PROVE Typed'
  <2>1. Shape' /\ \A k \in Jobs \ {j} : Placed(k)'
    BY <1>1, StepFrame, PlacedStays DEF Typed
  <2>2. Tables'
    <3> USE DEF Typed, Tables
    <3>1. CASE WriteCatalog(j)
      <4>1. PICK r \in Ids :
              catalog' = [catalog EXCEPT ![r] =
                IF found[j] # NULL THEN CatalogUpdate(j, @)
                ELSE [project |-> project[j], title |-> local[j], archived |-> FALSE,
                      live |-> TRUE]] /\ (found[j] # NULL => r \in Live(catalog))
        BY <3>1 DEF WriteCatalog, Live, Used
      <4>2. local[j] \in Titles /\ project[j] \in Projects
        BY <3>1 DEF WriteCatalog, Placed
      <4>3. CASE found[j] # NULL
        <5>1. catalog[r] \in CatalogRow
          BY <4>1, <4>3 DEF Live, Used
        <5>2. CatalogUpdate(j, catalog[r]) \in CatalogRow
          BY <4>2, <5>1 DEF CatalogUpdate, CatalogRow
        <5>3. catalog' \in [Ids -> CatalogRow \cup {NULL}]
          BY <4>1, <4>3, <5>2
        <5>4. QED
          BY <3>1, <5>3 DEF WriteCatalog, Overtakes, files
      <4>4. CASE found[j] = NULL
        <5>1. [project |-> project[j], title |-> local[j], archived |-> FALSE,
               live |-> TRUE] \in CatalogRow
          BY <4>2 DEF CatalogRow
        <5>2. catalog' \in [Ids -> CatalogRow \cup {NULL}]
          BY <4>1, <4>4, <5>1
        <5>3. QED
          BY <3>1, <5>2 DEF WriteCatalog, Overtakes, files
      <4>5. QED
        BY <4>3, <4>4
    <3>2. CASE WriteSurface(j)
      <4>1. [project |-> project[j], anchor |-> anchor[j], snapshot |-> local[j],
             live |-> TRUE] \in SurfaceRow
        BY <3>2 DEF WriteSurface, Placed, SurfaceRow
      <4>2. surface' \in [Ids -> SurfaceRow \cup {NULL}]
        BY <3>2, <4>1 DEF WriteSurface, Live, Used
      <4>3. QED
        BY <3>2, <4>2 DEF WriteSurface, Overtakes, files
    <3>3. CASE ~WriteCatalog(j) /\ ~WriteSurface(j)
      BY <1>1, <3>3 DEF Step, Command, ReadEntry, ReadDetail, Find, ReadSnapshot, FindAnchor,
         Match, Sees, CallFails, RowIsGone, files, tables, history, budget
    <3>4. QED
      BY <3>1, <3>2, <3>3
  <2>3. Placed(j)'
    <3> USE DEF Typed, Shape, Tables, Placed, Goto, files, tables, request, reads, budget
    <3>1. CASE Command(j)
      BY <3>1 DEF Command, Started
    <3>2. CASE ReadEntry(j)
      BY <3>2 DEF ReadEntry
    <3>3. CASE ReadDetail(j)
      BY <3>3 DEF ReadDetail
    <3>4. CASE Find(j)
      BY <3>4 DEF Find, AfterPlan
    <3>5. CASE WriteCatalog(j)
      BY <3>5 DEF WriteCatalog, Answered
    <3>6. CASE ReadSnapshot(j)
      BY <3>6, SyncAssumption DEF ReadSnapshot
    <3>7. CASE FindAnchor(j)
      BY <3>7 DEF FindAnchor, Live, Used, RowsOf
    <3>8. CASE Match(j)
      BY <3>8 DEF Match
    <3>9. CASE WriteSurface(j)
      BY <3>9 DEF WriteSurface, Answered
    <3>10. CASE CallFails(j) \/ RowIsGone(j)
      BY <3>10 DEF CallFails, RowIsGone
    <3>11. QED
      BY <1>1, <3>1, <3>2, <3>3, <3>4, <3>5, <3>6, <3>7, <3>8, <3>9, <3>10 DEF Step
  <2>4. QED
    BY <2>1, <2>2, <2>3 DEF Typed
<1>2. ASSUME NEW p \in Projects, Publish(p) PROVE Typed'
  <2>1. Tables' /\ snapshot'[p] \in 1..MaxChanges
    BY <1>2, SyncAssumption DEF Publish, Change, Typed, Tables, tables, history
  <2>2. \A k \in Jobs : Placed(k)'
    BY <1>2, <2>1, PublishFrame, PlacedStays DEF Typed, Placed
  <2>3. QED
    BY <1>2, <2>1, <2>2, PublishFrame DEF Typed
<1>3. ASSUME NEW p \in Projects, EditFile(p) PROVE Typed'
  <2>1. Tables'
    BY <1>3, SyncAssumption DEF EditFile, Change, Typed, Tables, tables, history
  <2>2. QED
    BY <1>3, <2>1, RestFrame, PlacedStays DEF Typed
<1>4. ASSUME NEW r \in Ids, EditTable(r) PROVE Typed'
  <2>1. changes' \in 0..MaxChanges /\ changes <= changes'
    BY <1>4, SyncAssumption DEF EditTable, Change, Typed, Tables
  <2>2. catalog' \in [Ids -> CatalogRow \cup {NULL}]
    <3>1. CASE r \in Live(catalog)
      <4>1. catalog[r] \in CatalogRow
        BY <3>1 DEF Typed, Tables, Live, Used
      <4>2. /\ [catalog[r] EXCEPT !.archived = TRUE] \in CatalogRow
            /\ [catalog[r] EXCEPT !.live = FALSE] \in CatalogRow
        BY <4>1 DEF CatalogRow
      <4>3. QED
        BY <1>4, <4>2 DEF EditTable, Typed, Tables
    <3>2. QED
      BY <1>4, <3>1 DEF EditTable, Typed, Tables
  <2>3. surface' \in [Ids -> SurfaceRow \cup {NULL}]
    <3>1. CASE r \in Live(surface)
      <4>1. surface[r] \in SurfaceRow
        BY <3>1 DEF Typed, Tables, Live, Used
      <4>2. [surface[r] EXCEPT !.live = FALSE] \in SurfaceRow
        BY <4>1 DEF SurfaceRow
      <4>3. QED
        BY <1>4, <4>2 DEF EditTable, Typed, Tables
    <3>2. QED
      BY <1>4, <3>1 DEF EditTable, Typed, Tables
  <2>4. Tables'
    BY <1>4, <2>1, <2>2, <2>3, SyncAssumption DEF EditTable, Typed, Tables, files, Overtakes
  <2>5. QED
    BY <1>4, <2>4, RestFrame, PlacedStays DEF Typed
<1>5. CASE UNCHANGED vars
  <2>1. Tables'
    BY <1>5 DEF Typed, Tables, vars, files, tables, history, budget
  <2>2. QED
    BY <1>5, <2>1, RestFrame, PlacedStays DEF Typed
<1>6. QED
  BY <1>1, <1>2, <1>3, <1>4, <1>5 DEF Next

\* Typing: for any number of synchronisations that interleave on the remote
\* tables, every reachable state is typed, and a synchronisation that writes
\* has read what it writes.
THEOREM Typing == Spec => []TypeOK
<1>1. Typed => TypeOK
  BY DEF Typed, Tables, Placed, TypeOK
<1>2. QED
  BY <1>1, TypedInit, TypedStep, PTL DEF Spec

LEMMA TypedAlways == Spec => []Typed
BY TypedInit, TypedStep, PTL DEF Spec
-----------------------------------------------------------------------------
(* What no step takes away: records stay in the catalogue under their project, *)
(* record ids stay used, and snapshots go forward.                             *)

LEMMA CatalogStays ==
  ASSUME Typed, [Next]_vars, NEW r \in Used(catalog)
  PROVE  r \in Used(catalog)' /\ catalog'[r].project = catalog[r].project
<1> USE SyncAssumption DEF Used
<1>0. catalog[r] \in CatalogRow /\ catalog' \in [Ids -> CatalogRow \cup {NULL}]
  BY TypedStep DEF Typed, Tables
<1>1. ASSUME NEW j \in Jobs, WriteCatalog(j)
      PROVE  r \in Used(catalog)' /\ catalog'[r].project = catalog[r].project
  <2>1. PICK q \in Ids :
          /\ catalog' = [catalog EXCEPT ![q] =
               IF found[j] # NULL THEN CatalogUpdate(j, @)
               ELSE [project |-> project[j], title |-> local[j], archived |-> FALSE,
                     live |-> TRUE]]
          /\ found[j] = NULL => q \notin Used(catalog)
    BY <1>1 DEF WriteCatalog, Live
  <2>2. CASE r = q
    <3>1. catalog'[r] = CatalogUpdate(j, catalog[r])
      BY <2>1, <2>2 DEF Typed, Tables
    <3>2. catalog'[r].project = catalog[r].project /\ catalog'[r] \in CatalogRow \cup {NULL}
      BY <1>0, <3>1 DEF CatalogUpdate, CatalogRow
    <3>3. catalog'[r] # NULL
      BY <1>0, <3>1, <1>1 DEF CatalogUpdate, CatalogRow, Typed, Placed, WriteCatalog
    <3>4. QED
      BY <3>2, <3>3
  <2>3. CASE r # q
    BY <2>1, <2>3 DEF Typed, Tables
  <2>4. QED
    BY <2>2, <2>3
<1>2. ASSUME NEW q \in Ids, EditTable(q)
      PROVE  r \in Used(catalog)' /\ catalog'[r].project = catalog[r].project
  <2>1. /\ [catalog[r] EXCEPT !.archived = TRUE] \in CatalogRow
        /\ [catalog[r] EXCEPT !.live = FALSE] \in CatalogRow
        /\ [catalog[r] EXCEPT !.archived = TRUE].project = catalog[r].project
        /\ [catalog[r] EXCEPT !.live = FALSE].project = catalog[r].project
    BY <1>0 DEF CatalogRow
  <2>2. QED
    BY <1>0, <1>2, <2>1 DEF EditTable, Typed, Tables
<1>3. ASSUME catalog' = catalog
      PROVE  r \in Used(catalog)' /\ catalog'[r].project = catalog[r].project
  BY <1>3
<1>4. CASE (\A j \in Jobs : ~WriteCatalog(j)) /\ (\A q \in Ids : ~EditTable(q))
  BY <1>3, <1>4 DEF Next, Step, Command, ReadEntry, ReadDetail, Find, ReadSnapshot, FindAnchor,
     Match, WriteSurface, CallFails, RowIsGone, Publish, EditFile, files, tables, vars
<1>5. QED
  BY <1>1, <1>2, <1>4

LEMMA SnapshotsStay ==
  ASSUME Typed, [Next]_vars, NEW p \in Projects
  PROVE  snapshot[p] <= snapshot'[p] /\ snapshot[p] \in Nat /\ snapshot'[p] \in Nat
<1>0. snapshot[p] \in Nat /\ snapshot' \in [Projects -> 0..MaxChanges]
  BY TypedStep, SyncAssumption DEF Typed, Tables
<1>1. CASE \E q \in Projects : Publish(q)
  BY <1>0, <1>1, SyncAssumption DEF Publish, Typed, Tables
<1>2. CASE \A q \in Projects : ~Publish(q)
  BY <1>0, <1>2 DEF Next, Step, Command, ReadEntry, ReadDetail, Find, ReadSnapshot, FindAnchor,
     Match, WriteCatalog, WriteSurface, CallFails, RowIsGone, EditFile, EditTable, files, vars
<1>3. QED
  BY <1>1, <1>2

\* A row of the surface is what it was, but for being deleted, unless a
\* synchronisation has written it.
LEMMA SurfaceStays ==
  ASSUME Typed, [Next]_vars, \A j \in Jobs : ~WriteSurface(j), NEW r \in Ids
  PROVE  \/ surface'[r] = surface[r]
         \/ /\ r \in Used(surface) /\ r \notin Live(surface')
            /\ surface'[r] = [surface[r] EXCEPT !.live = FALSE]
<1>1. ASSUME NEW q \in Ids, EditTable(q)
      PROVE  \/ surface'[r] = surface[r]
             \/ /\ r \in Used(surface) /\ r \notin Live(surface')
                /\ surface'[r] = [surface[r] EXCEPT !.live = FALSE]
  <2>1. CASE q \in Live(surface) /\ surface' = [surface EXCEPT ![q].live = FALSE]
    <3>1. surface[q] \in SurfaceRow
      BY <2>1 DEF Typed, Tables, Live, Used
    <3>2. [surface[q] EXCEPT !.live = FALSE].live = FALSE
      BY <3>1 DEF SurfaceRow
    <3>3. QED
      BY <2>1, <3>2 DEF Typed, Tables, Live, Used
  <2>2. QED
    BY <1>1, <2>1 DEF EditTable
<1>2. CASE \A q \in Ids : ~EditTable(q)
  BY <1>2 DEF Next, Step, Command, ReadEntry, ReadDetail, Find, ReadSnapshot, FindAnchor,
     Match, WriteCatalog, CallFails, RowIsGone, Publish, EditFile, files, tables, vars
<1>3. QED
  BY <1>1, <1>2

\* What a synchronisation writes to the surface, and where.
LEMMA SurfaceWritten ==
  ASSUME Typed, NEW j \in Jobs, WriteSurface(j)
  PROVE  \E r \in Ids :
           /\ surface' = [surface EXCEPT ![r] =
                [project |-> project[j], anchor |-> anchor[j], snapshot |-> local[j],
                 live |-> TRUE]]
           /\ IF found[j] = NULL THEN r \notin Used(surface)
              ELSE r = found[j] /\ r \in Live(surface)
           /\ record'[j] \in {r, found[j]} \/ pc'[j] = "failed"
BY DEF WriteSurface, Answered, Goto, Typed, Shape, Live, Used
-----------------------------------------------------------------------------
(* SurfaceIsAnchored. *)

\* What a surface synchronisation holds is of its project.
Hangs(j) ==
  kind[j] = "surface" =>
    /\ pc[j] \in {"anchor", "match", "write"} => local[j] <= snapshot[project[j]]
    /\ pc[j] \in {"match", "write"} =>
         anchor[j] \in Used(catalog) /\ catalog[anchor[j]].project = project[j]

Anchored == SurfaceIsAnchored /\ \A j \in Jobs : Hangs(j)

LEMMA AnchoredInit == Init => Anchored
BY DEF Init, Anchored, SurfaceIsAnchored, Hangs, Used

LEMMA HangsStays ==
  ASSUME Typed, [Next]_vars, NEW k \in Jobs, Hangs(k), Apart(k) PROVE Hangs(k)'
<1>1. ASSUME pc[k] \in {"anchor", "match", "write"}, kind[k] = "surface"
      PROVE  snapshot[project[k]] <= snapshot'[project[k]] /\ snapshot[project[k]] \in Nat
             /\ snapshot'[project[k]] \in Nat /\ local[k] \in Nat
  BY <1>1, SnapshotsStay DEF Typed, Placed
<1>2. QED
  BY <1>1, CatalogStays DEF Hangs, Apart

LEMMA AnchoredStep == Typed /\ Anchored /\ [Next]_vars => Anchored'
<1> SUFFICES ASSUME Typed, Anchored, [Next]_vars PROVE Anchored'
  OBVIOUS
<1>1. ASSUME NEW k \in Jobs PROVE Hangs(k)'
  <2>1. CASE Apart(k)
    BY <2>1, HangsStays DEF Anchored
  <2>2. CASE Step(k)
    <3> USE DEF Typed, Shape, Anchored, Hangs, Placed, Goto, files, tables, request, reads
    <3>1. CASE FindAnchor(k)
      BY <3>1 DEF FindAnchor, Live, RowsOf
    <3>2. CASE ReadSnapshot(k)
      BY <3>2, SnapshotsStay DEF ReadSnapshot
    <3>3. CASE Match(k)
      BY <3>3 DEF Match
    <3>4. CASE WriteCatalog(k) \/ WriteSurface(k)
      BY <3>4 DEF WriteCatalog, WriteSurface, Answered
    <3>5. CASE Command(k) \/ CallFails(k) \/ RowIsGone(k)
      BY <3>5 DEF Command, Started, CallFails, RowIsGone
    <3>6. CASE ReadEntry(k) \/ ReadDetail(k) \/ Find(k)
      BY <3>6 DEF ReadEntry, ReadDetail, Find
    <3>7. QED
      BY <2>2, <3>1, <3>2, <3>3, <3>4, <3>5, <3>6 DEF Step
  <2>3. CASE \E p \in Projects : Publish(p)
    BY <2>1, <2>3, PublishFrame, TypedStep DEF Typed, Hangs, Tables
  <2>4. QED
    BY <2>1, <2>2, <2>3, StepFrame, RestFrame DEF Next, Typed
<1>2. ASSUME NEW r \in Used(surface)'
      PROVE  /\ surface'[r].anchor \in Used(catalog)'
             /\ catalog'[surface'[r].anchor].project = surface'[r].project
             /\ surface'[r].snapshot <= snapshot'[surface'[r].project]
  <2>0. r \in Ids
    BY DEF Used
  <2>1. ASSUME r \in Used(surface), surface'[r].anchor = surface[r].anchor,
               surface'[r].project = surface[r].project,
               surface'[r].snapshot = surface[r].snapshot
        PROVE  /\ surface'[r].anchor \in Used(catalog)'
               /\ catalog'[surface'[r].anchor].project = surface'[r].project
               /\ surface'[r].snapshot <= snapshot'[surface'[r].project]
    <3>1. surface[r] \in SurfaceRow
      BY <2>1 DEF Typed, Tables, Used
    <3>2. surface[r].project \in Projects /\ surface[r].snapshot \in Nat
      BY <3>1, SyncAssumption DEF SurfaceRow
    <3>3. QED
      BY <2>1, <3>2, CatalogStays, SnapshotsStay DEF Anchored, SurfaceIsAnchored
  <2>2. ASSUME NEW j \in Jobs, WriteSurface(j)
        PROVE  /\ surface'[r].anchor \in Used(catalog)'
               /\ catalog'[surface'[r].anchor].project = surface'[r].project
               /\ surface'[r].snapshot <= snapshot'[surface'[r].project]
    <3>1. PICK q \in Ids :
            surface' = [surface EXCEPT ![q] =
              [project |-> project[j], anchor |-> anchor[j], snapshot |-> local[j],
               live |-> TRUE]]
      BY <2>2, SurfaceWritten
    <3>2. CASE r = q
      BY <2>2, <3>1, <3>2 DEF WriteSurface, Typed, Tables, Anchored, Hangs, files, Used
    <3>3. CASE r # q
      BY <2>0, <2>1, <3>1, <3>3 DEF Typed, Tables, Used
    <3>4. QED
      BY <3>2, <3>3
  <2>3. CASE \A j \in Jobs : ~WriteSurface(j)
    <3>1. CASE surface'[r] = surface[r]
      BY <2>0, <2>1, <3>1 DEF Used
    <3>2. CASE r \in Used(surface) /\ surface'[r] = [surface[r] EXCEPT !.live = FALSE]
      <4>1. surface[r] \in SurfaceRow
        BY <3>2 DEF Typed, Tables, Used
      <4>2. QED
        BY <2>1, <3>2, <4>1 DEF SurfaceRow
    <3>3. QED
      BY <2>0, <2>3, <3>1, <3>2, SurfaceStays
  <2>4. QED
    BY <2>2, <2>3
<1>3. QED
  BY <1>1, <1>2 DEF Anchored, SurfaceIsAnchored

\* Whatever the synchronisations do to each other, a row of the surface hangs on
\* a row of its own project and shows a snapshot that project has published.
THEOREM RowsAreAnchored == Spec => []SurfaceIsAnchored
<1>1. Anchored => SurfaceIsAnchored
  BY DEF Anchored
<1>2. QED
  BY <1>1, TypedAlways, AnchoredInit, AnchoredStep, PTL DEF Spec

LEMMA AnchoredAlways == Spec => []Anchored
BY TypedAlways, AnchoredInit, AnchoredStep, PTL DEF Spec
-----------------------------------------------------------------------------
(* What a synchronisation has found stays of its project. *)

Matched(j) ==
  pc[j] = "write" /\ found[j] # NULL =>
    /\ kind[j] = "catalog" =>
         found[j] \in Used(catalog) /\ catalog[found[j]].project = project[j]
    /\ kind[j] = "surface" =>
         found[j] \in Used(surface) /\ surface[found[j]].project = project[j]

AllMatched == \A j \in Jobs : Matched(j)

LEMMA MatchedInit == Init => AllMatched
BY DEF Init, AllMatched, Matched

LEMMA SurfaceRowStays ==
  ASSUME Typed, AllMatched, [Next]_vars, NEW r \in Used(surface)
  PROVE  r \in Used(surface)' /\ surface'[r].project = surface[r].project
<1>0. r \in Ids /\ surface[r] \in SurfaceRow
  BY DEF Typed, Tables, Used
<1>1. ASSUME NEW j \in Jobs, WriteSurface(j)
      PROVE  r \in Used(surface)' /\ surface'[r].project = surface[r].project
  <2>1. PICK q \in Ids :
          /\ surface' = [surface EXCEPT ![q] =
               [project |-> project[j], anchor |-> anchor[j], snapshot |-> local[j],
                live |-> TRUE]]
          /\ IF found[j] = NULL THEN q \notin Used(surface)
             ELSE q = found[j] /\ q \in Live(surface)
    BY <1>1, SurfaceWritten
  <2>2. CASE r = q
    <3>1. surface'[r] = [project |-> project[j], anchor |-> anchor[j],
                         snapshot |-> local[j], live |-> TRUE]
      BY <2>1, <2>2 DEF Typed, Tables
    <3>2. surface'[r] \in SurfaceRow
      <4>1. /\ project[j] \in Projects /\ anchor[j] \in Ids
            /\ local[j] \in 1..MaxChanges
        BY <1>1 DEF WriteSurface, Typed, Placed
      <4>2. QED
        BY <3>1, <4>1 DEF SurfaceRow
    <3>3. surface[r].project = project[j]
      BY <1>1, <2>1, <2>2 DEF WriteSurface, AllMatched, Matched
    <3>4. QED
      BY <1>0, <3>1, <3>2, <3>3, SyncAssumption DEF Used
  <2>3. CASE r # q
    BY <1>0, <2>1, <2>3 DEF Typed, Tables, Used
  <2>4. QED
    BY <2>2, <2>3
<1>2. CASE \A j \in Jobs : ~WriteSurface(j)
  <2>1. [surface[r] EXCEPT !.live = FALSE] \in SurfaceRow
        /\ [surface[r] EXCEPT !.live = FALSE].project = surface[r].project
    BY <1>0 DEF SurfaceRow
  <2>2. QED
    BY <1>0, <1>2, <2>1, SurfaceStays, SyncAssumption DEF Used
<1>3. QED
  BY <1>1, <1>2

LEMMA MatchedStep == Typed /\ AllMatched /\ [Next]_vars => AllMatched'
<1> SUFFICES ASSUME Typed, AllMatched, [Next]_vars, NEW k \in Jobs PROVE Matched(k)'
  BY DEF AllMatched
<1>1. CASE Apart(k)
  BY <1>1, CatalogStays, SurfaceRowStays DEF AllMatched, Matched, Apart
<1>2. CASE Step(k)
  <2> USE DEF Typed, Shape, Matched, Placed, Goto, files, tables, request, reads
  <2>1. CASE Find(k)
    <3>1. PICK seen \in SUBSET Live(catalog) :
            /\ Sees(k, seen, catalog, CatalogPage)
            /\ LET rows == RowsOf(catalog, seen, project[k])
                   row == IF rows = {} THEN NULL ELSE CHOOSE r \in rows : TRUE
               IN IF Cardinality(rows) > 1
                  THEN Goto(k, "failed") /\ UNCHANGED <<found, record>>
                  ELSE /\ found' = [found EXCEPT ![k] = row]
                       /\ record' = [record EXCEPT ![k] = row]
                       /\ Goto(k, AfterPlan(k, row))
      BY <2>1 DEF Find
    <3>2. pc'[k] = "write" /\ found'[k] # NULL => found'[k] \in RowsOf(catalog, seen, project[k])
      BY <3>1
    <3>3. QED
      BY <2>1, <3>2 DEF Find, Live, RowsOf
  <2>2. CASE Match(k)
    BY <2>2 DEF Match, Live, RowsOf
  <2>3. CASE Command(k) \/ ReadEntry(k) \/ ReadDetail(k)
    BY <2>3 DEF Command, Started, ReadEntry, ReadDetail
  <2>4. CASE ReadSnapshot(k) \/ FindAnchor(k)
    BY <2>4 DEF ReadSnapshot, FindAnchor
  <2>5. CASE WriteCatalog(k) \/ WriteSurface(k)
    BY <2>5 DEF WriteCatalog, WriteSurface, Answered
  <2>6. CASE CallFails(k) \/ RowIsGone(k)
    BY <2>6 DEF CallFails, RowIsGone
  <2>7. QED
    BY <1>2, <2>1, <2>2, <2>3, <2>4, <2>5, <2>6 DEF Step
<1>3. CASE \E p \in Projects : Publish(p)
  BY <1>1, <1>3, PublishFrame DEF Typed, Matched
<1>4. QED
  BY <1>1, <1>2, <1>3, StepFrame, RestFrame DEF Next, Typed

LEMMA MatchedAlways == Spec => []AllMatched
BY TypedAlways, MatchedInit, MatchedStep, PTL DEF Spec
-----------------------------------------------------------------------------
(* Nobody changes the rows of a synchronisation without overtaking it. *)

SameRows(table, after, p) ==
  /\ RowsOf(after, Live(after), p) = RowsOf(table, Live(table), p)
  /\ \A r \in RowsOf(table, Live(table), p) : after[r] = table[r]

Undisturbed(p) == SameRows(catalog, catalog', p) /\ SameRows(surface, surface', p)

HasRead(j) == pc[j] \notin {"idle", "entry", "snapshot"}

\* A table in which one record changes that neither was of project p nor is.
LEMMA OtherRow ==
  ASSUME NEW table, NEW row, NEW q \in Ids, NEW p, DOMAIN table = Ids,
         q \in Used(table) => table[q].project # p, row.project # p
  PROVE  SameRows(table, [table EXCEPT ![q] = row], p)
BY DEF SameRows, RowsOf, Live, Used

LEMMA OthersUndisturb ==
  ASSUME Typed, AllMatched, NEW j \in Jobs, Step(j), NEW k \in Jobs \ {j},
         HasRead(k), k \notin overtaken'
  PROVE  k \notin overtaken /\ Undisturbed(project[k])
<1>1. CASE WriteCatalog(j)
  <2>1. k \notin overtaken /\ project[k] # project[j] /\ surface' = surface
    BY <1>1 DEF WriteCatalog, Overtakes, HasRead
  <2>2. PICK q \in Ids :
          /\ catalog' = [catalog EXCEPT ![q] =
               IF found[j] # NULL THEN CatalogUpdate(j, @)
               ELSE [project |-> project[j], title |-> local[j], archived |-> FALSE,
                     live |-> TRUE]]
          /\ IF found[j] = NULL THEN q \notin Used(catalog)
             ELSE q = found[j] /\ q \in Live(catalog)
    BY <1>1 DEF WriteCatalog, Live, Used
  <2>3. q \in Used(catalog) => catalog[q].project = project[j]
    BY <1>1, <2>2 DEF WriteCatalog, AllMatched, Matched
  <2>4. CASE found[j] # NULL
    <3>1. catalog[q] \in CatalogRow
      BY <2>2, <2>4 DEF Typed, Tables, Live, Used
    <3>2. CatalogUpdate(j, catalog[q]).project = project[j]
      BY <2>2, <2>3, <2>4, <3>1 DEF CatalogUpdate, CatalogRow, Live
    <3>3. catalog' = [catalog EXCEPT ![q] = CatalogUpdate(j, catalog[q])]
      BY <2>2, <2>4 DEF Typed, Tables
    <3>4. SameRows(catalog, catalog', project[k])
      BY <2>1, <2>3, <3>2, <3>3, OtherRow DEF Typed, Tables
    <3>5. QED
      BY <2>1, <3>4 DEF Undisturbed, SameRows
  <2>5. CASE found[j] = NULL
    <3>1. catalog' = [catalog EXCEPT ![q] =
            [project |-> project[j], title |-> local[j], archived |-> FALSE,
             live |-> TRUE]]
      BY <2>2, <2>5
    <3>2. SameRows(catalog, catalog', project[k])
      BY <2>1, <2>3, <3>1, OtherRow DEF Typed, Tables
    <3>3. QED
      BY <2>1, <3>2 DEF Undisturbed, SameRows
  <2>6. QED
    BY <2>4, <2>5
<1>2. CASE WriteSurface(j)
  <2>1. k \notin overtaken /\ project[k] # project[j] /\ catalog' = catalog
    BY <1>2 DEF WriteSurface, Overtakes, HasRead
  <2>2. PICK q \in Ids :
          /\ surface' = [surface EXCEPT ![q] =
               [project |-> project[j], anchor |-> anchor[j], snapshot |-> local[j],
                live |-> TRUE]]
          /\ IF found[j] = NULL THEN q \notin Used(surface)
             ELSE q = found[j] /\ q \in Live(surface)
    BY <1>2, SurfaceWritten
  <2>3. q \in Used(surface) => surface[q].project = project[j]
    BY <1>2, <2>2 DEF WriteSurface, AllMatched, Matched
  <2>4. SameRows(surface, surface', project[k])
    BY <2>1, <2>2, <2>3, OtherRow DEF Typed, Tables
  <2>5. QED
    BY <2>1, <2>4 DEF Undisturbed, SameRows
<1>3. CASE ~WriteCatalog(j) /\ ~WriteSurface(j)
  BY <1>3 DEF Step, Command, ReadEntry, ReadDetail, Find, ReadSnapshot, FindAnchor, Match,
     CallFails, RowIsGone, tables, history, Undisturbed, SameRows
<1>4. QED
  BY <1>1, <1>2, <1>3

LEMMA RestUndisturbs ==
  ASSUME Typed, NEW k \in Jobs, HasRead(k), k \notin overtaken',
         \/ \E p \in Projects : Publish(p)
         \/ \E p \in Projects : EditFile(p)
         \/ \E r \in Ids : EditTable(r)
         \/ UNCHANGED vars
  PROVE  k \notin overtaken /\ Undisturbed(project[k])
<1>1. ASSUME NEW q \in Ids, EditTable(q)
      PROVE  k \notin overtaken /\ Undisturbed(project[k])
  <2>1. CASE q \in Live(catalog) /\ surface' = surface /\ Overtakes(NULL, catalog[q].project)
             /\ \/ catalog' = [catalog EXCEPT ![q].archived = TRUE]
                \/ catalog' = [catalog EXCEPT ![q].live = FALSE]
    <3>1. k \notin overtaken /\ project[k] # catalog[q].project
      BY <2>1, SyncAssumption DEF Overtakes, HasRead
    <3>2. catalog[q] \in CatalogRow
      BY <2>1 DEF Typed, Tables, Live, Used
    <3>3. /\ [catalog[q] EXCEPT !.archived = TRUE].project = catalog[q].project
          /\ [catalog[q] EXCEPT !.live = FALSE].project = catalog[q].project
      BY <3>2 DEF CatalogRow
    <3>4. SameRows(catalog, catalog', project[k])
      <4>1. CASE catalog' = [catalog EXCEPT ![q].archived = TRUE]
        <5>1. catalog' = [catalog EXCEPT ![q] = [catalog[q] EXCEPT !.archived = TRUE]]
          BY <4>1 DEF Typed, Tables
        <5>2. QED
          BY <2>1, <3>1, <3>3, <5>1, OtherRow DEF Typed, Tables
      <4>2. CASE catalog' = [catalog EXCEPT ![q].live = FALSE]
        <5>1. catalog' = [catalog EXCEPT ![q] = [catalog[q] EXCEPT !.live = FALSE]]
          BY <4>2 DEF Typed, Tables
        <5>2. QED
          BY <2>1, <3>1, <3>3, <5>1, OtherRow DEF Typed, Tables
      <4>3. QED
        BY <2>1, <4>1, <4>2
    <3>5. QED
      BY <2>1, <3>1, <3>4 DEF Undisturbed, SameRows
  <2>2. CASE q \in Live(surface) /\ catalog' = catalog /\ Overtakes(NULL, surface[q].project)
             /\ surface' = [surface EXCEPT ![q].live = FALSE]
    <3>1. k \notin overtaken /\ project[k] # surface[q].project
      BY <2>2, SyncAssumption DEF Overtakes, HasRead
    <3>2. surface[q] \in SurfaceRow
      BY <2>2 DEF Typed, Tables, Live, Used
    <3>3. [surface[q] EXCEPT !.live = FALSE].project = surface[q].project
      BY <3>2 DEF SurfaceRow
    <3>4. SameRows(surface, surface', project[k])
      BY <2>2, <3>1, <3>3, OtherRow DEF Typed, Tables
    <3>5. QED
      BY <2>2, <3>1, <3>4 DEF Undisturbed, SameRows
  <2>3. QED
    BY <1>1, <2>1, <2>2 DEF EditTable
<1>2. CASE \A q \in Ids : ~EditTable(q)
  BY <1>2 DEF Publish, EditFile, tables, history, vars, Undisturbed, SameRows
<1>3. QED
  BY <1>1, <1>2

\* A synchronisation that nobody overtook, and that took no step of its own, has
\* what it had, and sees the rows it saw.
LEMMA StandsStill ==
  ASSUME Typed, AllMatched, [Next]_vars, NEW k \in Jobs, ~Step(k), k \notin overtaken',
         HasRead(k)
  PROVE  Apart(k) /\ k \notin overtaken /\ Undisturbed(project[k])
<1>1. ASSUME NEW j \in Jobs, Step(j)
      PROVE  Apart(k) /\ k \notin overtaken /\ Undisturbed(project[k])
  BY <1>1, StepFrame, OthersUndisturb DEF Typed
<1>2. ASSUME NEW p \in Projects, Publish(p) PROVE Apart(k)
  BY <1>2, PublishFrame DEF Typed, HasRead
<1>3. CASE (\E p \in Projects : EditFile(p)) \/ (\E r \in Ids : EditTable(r))
           \/ UNCHANGED vars
  BY <1>3, RestFrame, RestUndisturbs DEF Typed
<1>4. QED
  BY <1>1, <1>2, <1>3, RestUndisturbs DEF Next

\* Who has read by the end of a step either had read before, or reads in it, or
\* is started by a publication.
LEMMA WhoHasRead ==
  ASSUME Typed, [Next]_vars, NEW k \in Jobs, HasRead(k)'
  PROVE  \/ Step(k)
         \/ HasRead(k)
         \/ \E p \in Projects :
              /\ Publish(p) /\ pc'[k] = "anchor" /\ kind'[k] = "surface"
              /\ project'[k] = p /\ local'[k] = snapshot'[p]
<1>1. CASE \E p \in Projects : Publish(p)
  BY <1>1, PublishFrame DEF Typed, HasRead, Apart
<1>2. CASE \A p \in Projects : ~Publish(p)
  BY <1>2, StepFrame, RestFrame DEF Next, Typed, HasRead, Apart
<1>3. QED
  BY <1>1, <1>2
-----------------------------------------------------------------------------
(* SurfaceGoesForward. *)

\* The rows of a surface synchronisation that was not overtaken show nothing
\* newer than what it has read.
Ahead(j) ==
  kind[j] = "surface" /\ pc[j] \in {"anchor", "match", "write"} /\ j \notin overtaken =>
    \A r \in RowsOf(surface, Live(surface), project[j]) : surface[r].snapshot <= local[j]

AllAhead == \A j \in Jobs : Ahead(j)

LEMMA AheadInit == Init => AllAhead
BY DEF Init, AllAhead, Ahead

LEMMA AheadStep ==
  Typed /\ Anchored /\ AllMatched /\ AllAhead /\ [Next]_vars => AllAhead'
<1> SUFFICES ASSUME Typed, Anchored, AllMatched, AllAhead, [Next]_vars, NEW k \in Jobs,
                    kind'[k] = "surface", pc'[k] \in {"anchor", "match", "write"},
                    k \notin overtaken'
             PROVE  \A r \in RowsOf(surface', Live(surface'), project'[k]) :
                      surface'[r].snapshot <= local'[k]
  BY DEF AllAhead, Ahead, RowsOf, Live, Used
<1>1. CASE Step(k)
  <2> USE DEF Typed, Shape, Placed, Goto, files, tables, request, reads, budget
  <2>1. CASE ReadSnapshot(k)
    BY <2>1 DEF ReadSnapshot, Anchored, SurfaceIsAnchored, RowsOf, Live
  <2>2. CASE FindAnchor(k)
    BY <2>2 DEF FindAnchor, AllAhead, Ahead
  <2>3. CASE Match(k)
    BY <2>3 DEF Match, AllAhead, Ahead
  <2>4. CASE Command(k) \/ ReadEntry(k) \/ ReadDetail(k) \/ Find(k)
    BY <2>4 DEF Command, Started, ReadEntry, ReadDetail, Find, AfterPlan
  <2>5. CASE WriteCatalog(k) \/ WriteSurface(k) \/ CallFails(k) \/ RowIsGone(k)
    BY <2>5 DEF WriteCatalog, WriteSurface, Answered, CallFails, RowIsGone
  <2>6. QED
    BY <1>1, <2>1, <2>2, <2>3, <2>4, <2>5 DEF Step
<1>2. CASE ~Step(k) /\ HasRead(k)
  BY <1>2, StandsStill DEF AllAhead, Ahead, Apart, Undisturbed, SameRows
<1>3. ASSUME NEW p \in Projects, Publish(p), project'[k] = p, local'[k] = snapshot'[p]
      PROVE  \A r \in RowsOf(surface', Live(surface'), project'[k]) :
               surface'[r].snapshot <= local'[k]
  <2>1. surface' = surface
    BY <1>3 DEF Publish, tables
  <2>2. ASSUME NEW r \in Used(surface), surface[r].project = p
        PROVE  surface[r].snapshot <= snapshot'[p]
    <3>1. surface[r] \in SurfaceRow /\ surface[r].snapshot <= snapshot[p]
      BY <2>2 DEF Anchored, SurfaceIsAnchored, Typed, Tables, Used
    <3>2. surface[r].snapshot \in Nat
      BY <3>1, SyncAssumption DEF SurfaceRow
    <3>3. QED
      BY <3>1, <3>2, SnapshotsStay
  <2>3. QED
    BY <1>3, <2>1, <2>2 DEF RowsOf, Live
<1>4. HasRead(k)'
  BY DEF HasRead
<1>5. QED
  BY <1>1, <1>2, <1>3, <1>4, WhoHasRead

\* Who stops writing has written, or failed.
LEMMA WhoWrites ==
  ASSUME Typed, [Next]_vars, NEW j \in Jobs, WritesUndisturbed(j)
  PROVE  WriteCatalog(j) \/ WriteSurface(j) \/ UNCHANGED tables
<1>1. Step(j)
  BY StepFrame, PublishFrame, RestFrame DEF Next, Typed, WritesUndisturbed, Apart
<1>2. QED
  BY <1>1 DEF WritesUndisturbed, Step, Command, Started, ReadEntry, ReadDetail, Find,
     ReadSnapshot, FindAnchor, Match, CallFails, RowIsGone

\* A row of the surface goes back to an older snapshot only by a synchronisation
\* that was overtaken, for any number of observers and commands.
THEOREM SurfaceForward == Spec => SurfaceGoesForward
<1>1. Typed /\ AllMatched /\ AllAhead /\ [Next]_vars =>
        [\A j \in Jobs : WritesUndisturbed(j) =>
           \A r \in Live(surface) : surface[r].snapshot <= surface'[r].snapshot]_vars
  <2> SUFFICES ASSUME Typed, AllMatched, AllAhead, [Next]_vars, NEW j \in Jobs,
                      WritesUndisturbed(j), NEW r \in Live(surface)
               PROVE  surface[r].snapshot <= surface'[r].snapshot
    OBVIOUS
  <2>1. surface[r] \in SurfaceRow /\ r \in Ids
    BY DEF Typed, Tables, Live, Used
  <2>2. surface[r].snapshot \in Nat
    BY <2>1, SyncAssumption DEF SurfaceRow
  <2>3. CASE surface' = surface
    BY <2>2, <2>3
  <2>4. CASE WriteSurface(j)
    <3>1. PICK q \in Ids :
            /\ surface' = [surface EXCEPT ![q] =
                 [project |-> project[j], anchor |-> anchor[j], snapshot |-> local[j],
                  live |-> TRUE]]
            /\ IF found[j] = NULL THEN q \notin Used(surface)
               ELSE q = found[j] /\ q \in Live(surface)
      BY <2>4, SurfaceWritten
    <3>2. CASE r = q
      <4>1. r \in RowsOf(surface, Live(surface), project[j])
        BY <2>4, <3>1, <3>2 DEF WriteSurface, AllMatched, Matched, RowsOf, Live
      <4>2. surface'[r].snapshot = local[j]
        BY <2>1, <3>1, <3>2 DEF Typed, Tables
      <4>3. QED
        BY <2>4, <4>1, <4>2 DEF WriteSurface, WritesUndisturbed, AllAhead, Ahead
    <3>3. CASE r # q
      BY <2>1, <2>2, <3>1, <3>3 DEF Typed, Tables
    <3>4. QED
      BY <3>2, <3>3
  <2>5. QED
    BY <2>3, <2>4, WhoWrites DEF WriteCatalog, tables
<1>2. Spec => []AllAhead
  BY TypedAlways, AnchoredAlways, MatchedAlways, AheadInit, AheadStep, PTL DEF Spec
<1>3. QED
  BY <1>1, <1>2, TypedAlways, MatchedAlways, PTL DEF Spec, SurfaceGoesForward
-----------------------------------------------------------------------------
(* CreatesOnlyWhatIsMissing and ArchivedStaysArchived. *)

\* A table that fits into the page is listed as a whole.
LEMMA ListsAll ==
  ASSUME NEW table, NEW page \in Nat, Cardinality(Used(table)) <= page,
         NEW seen \in Listings(table, page)
  PROVE  seen = Live(table)
<1>1. IsFiniteSet(Used(table)) /\ IsFiniteSet(Live(table))
  BY SyncAssumption, FS_Subset DEF Used, Live
<1>2. /\ Cardinality(Live(table)) \in Nat /\ Cardinality(Used(table)) \in Nat
      /\ Cardinality(Live(table)) <= Cardinality(Used(table))
  BY <1>1, FS_Subset, FS_CardinalityType DEF Live
<1>3. seen \subseteq Live(table) /\ IsFiniteSet(seen) /\ Cardinality(seen) \in Nat
  BY <1>1, FS_Subset, FS_CardinalityType DEF Listings
<1>4. CASE Cardinality(seen) < page
  BY <1>4 DEF Listings
<1>5. CASE Cardinality(seen) = page
  <2>1. Cardinality(seen) = Cardinality(Live(table))
    BY <1>1, <1>2, <1>3, <1>5, FS_Subset
  <2>2. QED
    BY <1>1, <1>3, <2>1, FS_Subset
<1>6. QED
  BY <1>3, <1>4, <1>5 DEF Listings

\* Tables never shrink, so one that fits has fitted.
LEMMA FitBack ==
  ASSUME Typed, AllMatched, [Next]_vars, TablesFit' PROVE TablesFit
<1>1. Used(catalog) \subseteq Used(catalog)' /\ Used(surface) \subseteq Used(surface)'
  BY CatalogStays, SurfaceRowStays
<1>2. IsFiniteSet(Used(catalog)') /\ IsFiniteSet(Used(surface)')
  BY SyncAssumption, FS_Subset DEF Used
<1>3. /\ Cardinality(Used(catalog)) <= Cardinality(Used(catalog)')
      /\ Cardinality(Used(surface)) <= Cardinality(Used(surface)')
      /\ Cardinality(Used(catalog)) \in Nat /\ Cardinality(Used(catalog)') \in Nat
      /\ Cardinality(Used(surface)) \in Nat /\ Cardinality(Used(surface)') \in Nat
  BY <1>1, <1>2, FS_Subset, FS_CardinalityType
<1>4. QED
  BY <1>3, SyncAssumption DEF TablesFit

\* A synchronisation that found no row, in tables that fit into a page, finds none
\* when it writes, unless it was overtaken, or misled.
Missing(j) ==
  pc[j] = "write" /\ found[j] = NULL /\ j \notin overtaken /\ j \notin misled /\ TablesFit =>
    /\ kind[j] = "catalog" => RowsOf(catalog, Live(catalog), project[j]) = {}
    /\ kind[j] = "surface" => RowsOf(surface, Live(surface), project[j]) = {}

AllMissing == \A j \in Jobs : Missing(j)

LEMMA MissingInit == Init => AllMissing
BY DEF Init, AllMissing, Missing

LEMMA MissingStep ==
  Typed /\ AllMatched /\ AllMissing /\ [Next]_vars => AllMissing'
<1> SUFFICES ASSUME Typed, AllMatched, AllMissing, [Next]_vars, NEW k \in Jobs,
                    pc'[k] = "write", found'[k] = NULL, k \notin overtaken', k \notin misled',
                    TablesFit'
             PROVE  /\ kind'[k] = "catalog" =>
                         RowsOf(catalog', Live(catalog'), project'[k]) = {}
                    /\ kind'[k] = "surface" =>
                         RowsOf(surface', Live(surface'), project'[k]) = {}
  BY DEF AllMissing, Missing, RowsOf, Live, Used
<1>0. TablesFit
  BY FitBack
<1>1. CASE Step(k)
  <2> USE DEF Typed, Shape, Placed, Goto, files, tables, request, reads, budget
  <2>1. CASE Find(k)
    <3>1. PICK seen \in SUBSET Live(catalog) :
            /\ Sees(k, seen, catalog, CatalogPage)
            /\ LET rows == RowsOf(catalog, seen, project[k])
                   row == IF rows = {} THEN NULL ELSE CHOOSE r \in rows : TRUE
               IN IF Cardinality(rows) > 1
                  THEN Goto(k, "failed") /\ UNCHANGED <<found, record>>
                  ELSE /\ found' = [found EXCEPT ![k] = row]
                       /\ record' = [record EXCEPT ![k] = row]
                       /\ Goto(k, AfterPlan(k, row))
      BY <2>1 DEF Find
    <3>2. seen = Live(catalog)
      BY <1>0, <3>1, ListsAll, SyncAssumption DEF TablesFit, Sees
    <3>3. RowsOf(catalog, seen, project[k]) # {} =>
            found'[k] \in RowsOf(catalog, seen, project[k])
      BY <3>1
    <3>4. RowsOf(catalog, seen, project[k]) = {}
      BY <3>2, <3>3, SyncAssumption DEF RowsOf, Live, Used
    <3>5. QED
      BY <2>1, <3>2, <3>4 DEF Find
  <2>2. CASE Match(k)
    <3>1. PICK seen \in SUBSET Live(surface) :
            /\ Sees(k, seen, surface, SurfacePage)
            /\ LET rows == RowsOf(surface, seen, project[k])
               IN \E r \in (IF rows = {} THEN {NULL} ELSE rows) :
                    found' = [found EXCEPT ![k] = r]
      BY <2>2 DEF Match
    <3>2. seen = Live(surface)
      BY <1>0, <3>1, ListsAll, SyncAssumption DEF TablesFit, Sees
    <3>3. RowsOf(surface, seen, project[k]) = {}
      BY <3>1, <3>2, SyncAssumption DEF RowsOf, Live, Used
    <3>4. QED
      BY <2>2, <3>2, <3>3 DEF Match
  <2>3. CASE Command(k) \/ ReadEntry(k) \/ ReadDetail(k)
    BY <2>3 DEF Command, Started, ReadEntry, ReadDetail
  <2>4. CASE ReadSnapshot(k) \/ FindAnchor(k)
    BY <2>4 DEF ReadSnapshot, FindAnchor
  <2>5. CASE WriteCatalog(k) \/ WriteSurface(k) \/ CallFails(k) \/ RowIsGone(k)
    BY <2>5 DEF WriteCatalog, WriteSurface, Answered, CallFails, RowIsGone
  <2>6. QED
    BY <1>1, <2>1, <2>2, <2>3, <2>4, <2>5 DEF Step
<1>2. CASE ~Step(k) /\ HasRead(k)
  BY <1>0, <1>2, StandsStill DEF AllMissing, Missing, Apart, Undisturbed, SameRows
<1>3. QED
  BY <1>1, <1>2, WhoHasRead DEF HasRead

LEMMA MissingAlways == Spec => []AllMissing
BY TypedAlways, MatchedAlways, MissingInit, MissingStep, PTL DEF Spec

\* What a synchronisation writes to the catalogue, and where.
LEMMA CatalogWritten ==
  ASSUME Typed, NEW j \in Jobs, WriteCatalog(j)
  PROVE  \E r \in Ids :
           /\ record'[j] \in {r, found[j]} \/ pc'[j] = "failed"
           /\ \/ /\ found[j] = NULL /\ r \notin Used(catalog)
                 /\ catalog' = [catalog EXCEPT ![r] =
                      [project |-> project[j], title |-> local[j], archived |-> FALSE,
                       live |-> TRUE]]
              \/ /\ found[j] # NULL /\ r = found[j] /\ r \in Live(catalog)
                 /\ catalog' = [catalog EXCEPT ![r] = [catalog[r] EXCEPT !.title = local[j]]]
<1>1. PICK r \in (IF found[j] = NULL THEN Ids \ Used(catalog)
                  ELSE Live(catalog) \cap {found[j]}) :
        /\ catalog' = [catalog EXCEPT ![r] =
             IF found[j] # NULL THEN CatalogUpdate(j, @)
             ELSE [project |-> project[j], title |-> local[j], archived |-> FALSE,
                   live |-> TRUE]]
        /\ Answered(j, r)
  BY DEF WriteCatalog
<1>2. r \in Ids /\ (record'[j] \in {r, found[j]} \/ pc'[j] = "failed")
  BY <1>1 DEF Answered, Goto, Typed, Shape, Live, Used
<1>3. QED
  BY <1>1, <1>2 DEF CatalogUpdate, Typed, Tables

\* One row per project: a synchronisation that nobody overtook, and whose last
\* listing was understood, creates a row only where there is none, also when it
\* repeats one whose answer was lost.
THEOREM OneRow == Spec => CreatesOnlyWhatIsMissing
<1>1. Typed /\ AllMissing /\ [Next]_vars =>
        [\A j \in Jobs : WritesUndisturbed(j) /\ j \notin misled /\ TablesFit =>
           /\ \A r \in Ids \ Used(catalog) :
                catalog'[r] # NULL => RowsOf(catalog, Live(catalog), project[j]) = {}
           /\ \A r \in Ids \ Used(surface) :
                surface'[r] # NULL => RowsOf(surface, Live(surface), project[j]) = {}]_vars
  <2> SUFFICES ASSUME Typed, AllMissing, [Next]_vars, NEW j \in Jobs,
                      WritesUndisturbed(j), j \notin misled, TablesFit, NEW r \in Ids
               PROVE  /\ r \notin Used(catalog) /\ catalog'[r] # NULL =>
                           RowsOf(catalog, Live(catalog), project[j]) = {}
                      /\ r \notin Used(surface) /\ surface'[r] # NULL =>
                           RowsOf(surface, Live(surface), project[j]) = {}
    OBVIOUS
  <2>1. CASE WriteCatalog(j)
    <3>1. surface' = surface /\ kind[j] = "catalog"
      BY <2>1 DEF WriteCatalog
    <3>2. CASE found[j] = NULL
      BY <3>1, <3>2 DEF WritesUndisturbed, AllMissing, Missing, Used
    <3>3. CASE found[j] # NULL
      <4>1. found[j] \in Live(catalog)
            /\ catalog' = [catalog EXCEPT ![found[j]] =
                             [catalog[found[j]] EXCEPT !.title = local[j]]]
        BY <2>1, <3>3, CatalogWritten
      <4>2. r \notin Used(catalog) => catalog'[r] = catalog[r]
        BY <4>1 DEF Typed, Tables, Live
      <4>3. QED
        BY <3>1, <4>2 DEF Used
    <3>4. QED
      BY <3>2, <3>3
  <2>2. CASE WriteSurface(j)
    <3>1. catalog' = catalog /\ kind[j] = "surface"
      BY <2>2 DEF WriteSurface
    <3>2. CASE found[j] = NULL
      BY <3>1, <3>2 DEF WritesUndisturbed, AllMissing, Missing, Used
    <3>3. CASE found[j] # NULL
      <4>1. PICK q \in Live(surface) :
              surface' = [surface EXCEPT ![q] =
                [project |-> project[j], anchor |-> anchor[j], snapshot |-> local[j],
                 live |-> TRUE]]
        BY <2>2, <3>3, SurfaceWritten
      <4>2. r \notin Used(surface) => surface'[r] = surface[r]
        BY <4>1 DEF Typed, Tables, Live
      <4>3. QED
        BY <3>1, <4>2 DEF Used
    <3>4. QED
      BY <3>2, <3>3
  <2>3. CASE UNCHANGED tables
    BY <2>3 DEF tables, Used
  <2>4. QED
    BY <2>1, <2>2, <2>3, WhoWrites
<1>2. QED
  BY <1>1, TypedAlways, MissingAlways, PTL DEF Spec, CreatesOnlyWhatIsMissing

\* What a human has archived or deleted, no step brings back.
LEMMA RowsStand ==
  ASSUME Typed, [Next]_vars, NEW r \in Used(catalog)
  PROVE  /\ catalog[r].archived => catalog'[r].archived
         /\ catalog'[r].live => catalog[r].live
<1>0. r \in Ids /\ catalog[r] \in CatalogRow
  BY DEF Typed, Tables, Used
<1>1. ASSUME NEW j \in Jobs, WriteCatalog(j)
      PROVE  /\ catalog[r].archived => catalog'[r].archived
             /\ catalog'[r].live => catalog[r].live
  <2>1. PICK q \in Ids :
          \/ /\ found[j] = NULL /\ q \notin Used(catalog)
             /\ catalog' = [catalog EXCEPT ![q] =
                  [project |-> project[j], title |-> local[j], archived |-> FALSE,
                   live |-> TRUE]]
          \/ /\ found[j] # NULL /\ q = found[j] /\ q \in Live(catalog)
             /\ catalog' = [catalog EXCEPT ![q] = [catalog[q] EXCEPT !.title = local[j]]]
    BY <1>1, CatalogWritten
  <2>2. CASE q = r
    <3>1. catalog'[r] = [catalog[r] EXCEPT !.title = local[j]]
      BY <2>1, <2>2 DEF Typed, Tables
    <3>2. QED
      BY <1>0, <3>1 DEF CatalogRow
  <2>3. CASE q # r
    BY <1>0, <2>1, <2>3 DEF Typed, Tables
  <2>4. QED
    BY <2>2, <2>3
<1>2. ASSUME NEW q \in Ids, EditTable(q)
      PROVE  /\ catalog[r].archived => catalog'[r].archived
             /\ catalog'[r].live => catalog[r].live
  <2>1. /\ [catalog[r] EXCEPT !.archived = TRUE].archived
        /\ [catalog[r] EXCEPT !.archived = TRUE].live = catalog[r].live
        /\ [catalog[r] EXCEPT !.live = FALSE].archived = catalog[r].archived
        /\ [catalog[r] EXCEPT !.live = FALSE].live = FALSE
    BY <1>0 DEF CatalogRow
  <2>2. catalog'[r] \in {catalog[r], [catalog[r] EXCEPT !.archived = TRUE],
                         [catalog[r] EXCEPT !.live = FALSE]}
    BY <1>0, <1>2 DEF EditTable, Typed, Tables
  <2>3. QED
    BY <2>1, <2>2
<1>3. CASE (\A j \in Jobs : ~WriteCatalog(j)) /\ (\A q \in Ids : ~EditTable(q))
  BY <1>3 DEF Next, Step, Command, ReadEntry, ReadDetail, Find, ReadSnapshot, FindAnchor,
     Match, WriteSurface, CallFails, RowIsGone, Publish, EditFile, files, tables, vars
<1>4. QED
  BY <1>1, <1>2, <1>3

\* A row that a human has archived or deleted stays so; a project whose rows are
\* archived gets no other, unless a synchronisation was overtaken, or misled by
\* the listing it went by.
THEOREM ArchiveStands == Spec => ArchivedStaysArchived
<1>1. Typed /\ AllMatched /\ AllMissing /\ [Next]_vars =>
        [/\ \A r \in Used(catalog) : /\ catalog[r].archived => catalog'[r].archived
                                     /\ catalog'[r].live => catalog[r].live
         /\ \A j \in Jobs : WritesUndisturbed(j) /\ j \notin misled /\ TablesFit =>
              LET rows == RowsOf(catalog, Live(catalog), project[j])
              IN rows # {} /\ (\A r \in rows : catalog[r].archived) =>
                   \A r \in RowsOf(catalog, Live(catalog), project[j])' :
                     catalog'[r].archived]_vars
  <2> SUFFICES ASSUME Typed, AllMatched, AllMissing, [Next]_vars, NEW j \in Jobs,
                      WritesUndisturbed(j), j \notin misled, TablesFit,
                      RowsOf(catalog, Live(catalog), project[j]) # {},
                      \A r \in RowsOf(catalog, Live(catalog), project[j]) : catalog[r].archived,
                      NEW q \in RowsOf(catalog', Live(catalog'), project'[j])
               PROVE  catalog'[q].archived
    BY RowsStand DEF RowsOf, Live, Used
  <2>1. CASE WriteCatalog(j)
    <3>1. found[j] # NULL /\ project'[j] = project[j]
      BY <2>1 DEF WriteCatalog, request, WritesUndisturbed, AllMissing, Missing
    <3>2. found[j] \in Live(catalog)
          /\ catalog' = [catalog EXCEPT ![found[j]] =
                           [catalog[found[j]] EXCEPT !.title = local[j]]]
      BY <2>1, <3>1, CatalogWritten
    <3>3. catalog[found[j]] \in CatalogRow
      BY <3>2 DEF Typed, Tables, Live, Used
    <3>4. found[j] \in RowsOf(catalog, Live(catalog), project[j])
      BY <2>1, <3>1, <3>2 DEF WriteCatalog, AllMatched, Matched, RowsOf
    <3>5. CASE q = found[j]
      <4>1. catalog'[q] = [catalog[found[j]] EXCEPT !.title = local[j]]
        BY <3>2, <3>5 DEF Typed, Tables, Live, Used
      <4>2. catalog'[q].archived = catalog[found[j]].archived
        BY <3>3, <4>1 DEF CatalogRow
      <4>3. QED
        BY <3>4, <4>2
    <3>6. CASE q # found[j]
      BY <3>1, <3>2, <3>6 DEF Typed, Tables, RowsOf, Live, Used
    <3>7. QED
      BY <3>5, <3>6
  <2>2. CASE catalog' = catalog /\ project'[j] = project[j]
    BY <2>2
  <2>3. project'[j] = project[j]
    BY StepFrame, PublishFrame, RestFrame DEF Next, Typed, WritesUndisturbed, Apart, Step,
       Command, Started, ReadEntry, ReadDetail, Find, WriteCatalog, ReadSnapshot, FindAnchor,
       Match, WriteSurface, CallFails, RowIsGone, request
  <2>4. QED
    BY <2>1, <2>2, <2>3, WhoWrites DEF WriteSurface, tables
<1>2. QED
  BY <1>1, TypedAlways, MatchedAlways, MissingAlways, PTL DEF Spec, ArchivedStaysArchived
-----------------------------------------------------------------------------
(* ReportIsTrue. *)

\* The report of synchronisation j names row r, or none when it has created it.
Named(j, r) == record[j] = r \/ (record[j] = NULL /\ found[j] = NULL)

Reported(j) ==
  pc[j] = "done" /\ apply[j] /\ j \notin overtaken =>
    IF kind[j] = "catalog"
    THEN \E r \in RowsOf(catalog, Live(catalog), project[j]) :
           catalog[r].title = local[j] /\ Named(j, r)
    ELSE \E r \in RowsOf(surface, Live(surface), project[j]) :
           surface[r].snapshot = local[j] /\ Named(j, r)

AllReported == \A j \in Jobs : Reported(j)

LEMMA ReportedStep ==
  Typed /\ AllMatched /\ AllReported /\ [Next]_vars => AllReported'
<1> SUFFICES ASSUME Typed, AllMatched, AllReported, [Next]_vars,
                    NEW k \in Jobs, pc'[k] = "done", apply'[k], k \notin overtaken'
             PROVE  IF kind'[k] = "catalog"
                    THEN \E r \in RowsOf(catalog', Live(catalog'), project'[k]) :
                           catalog'[r].title = local'[k] /\ Named(k, r)'
                    ELSE \E r \in RowsOf(surface', Live(surface'), project'[k]) :
                           surface'[r].snapshot = local'[k] /\ Named(k, r)'
  BY DEF AllReported, Reported, RowsOf, Live, Used
<1>1. CASE Step(k)
  <2> USE DEF Typed, Shape, Placed, Goto, files, tables, request, reads, budget
  <2>1. CASE Find(k)
    <3>1. PICK seen \in SUBSET Live(catalog) :
            LET rows == RowsOf(catalog, seen, project[k])
                row == IF rows = {} THEN NULL ELSE CHOOSE r \in rows : TRUE
            IN IF Cardinality(rows) > 1
               THEN Goto(k, "failed") /\ UNCHANGED <<found, record>>
               ELSE /\ found' = [found EXCEPT ![k] = row]
                    /\ record' = [record EXCEPT ![k] = row]
                    /\ Goto(k, AfterPlan(k, row))
      BY <2>1 DEF Find
    <3>2. /\ record'[k] # NULL /\ catalog[record'[k]].title = local[k]
          /\ RowsOf(catalog, seen, project[k]) # {}
      BY <2>1, <3>1 DEF Find, AfterPlan
    <3>3. record'[k] \in RowsOf(catalog, seen, project[k])
      BY <2>1, <3>1, <3>2 DEF Find
    <3>4. record'[k] \in RowsOf(catalog, Live(catalog), project[k])
      BY <3>1, <3>3 DEF RowsOf
    <3>5. QED
      BY <2>1, <3>2, <3>4 DEF Find, Named
  <2>2. CASE WriteCatalog(k)
    <3>1. PICK r \in Ids :
            /\ record'[k] \in {r, found[k]}
            /\ \/ /\ found[k] = NULL /\ r \notin Used(catalog)
                  /\ catalog' = [catalog EXCEPT ![r] =
                       [project |-> project[k], title |-> local[k], archived |-> FALSE,
                        live |-> TRUE]]
               \/ /\ found[k] # NULL /\ r = found[k] /\ r \in Live(catalog)
                  /\ catalog' = [catalog EXCEPT ![r] =
                       [catalog[r] EXCEPT !.title = local[k]]]
      BY <2>2, CatalogWritten
    <3>2. catalog'[r].project = project[k] /\ catalog'[r].title = local[k] /\ catalog'[r].live
      <4>1. CASE found[k] = NULL
        BY <3>1, <4>1 DEF Tables
      <4>2. CASE found[k] # NULL
        <5>1. catalog[r] \in CatalogRow /\ catalog[r].live
          BY <3>1, <4>2 DEF Tables, Live, Used
        <5>2. catalog[r].project = project[k]
          BY <2>2, <3>1, <4>2 DEF WriteCatalog, AllMatched, Matched
        <5>3. catalog'[r] = [catalog[r] EXCEPT !.title = local[k]]
          BY <3>1, <4>2 DEF Tables
        <5>4. QED
          BY <5>1, <5>2, <5>3 DEF CatalogRow
      <4>3. QED
        BY <4>1, <4>2
    <3>3. catalog'[r] # NULL
      <4>1. CASE found[k] = NULL
        <5>1. /\ catalog'[r] = [project |-> project[k], title |-> local[k],
                                archived |-> FALSE, live |-> TRUE]
              /\ project[k] \in Projects /\ local[k] \in Titles
          BY <2>2, <3>1, <4>1 DEF WriteCatalog, Tables
        <5>2. catalog'[r] \in CatalogRow
          BY <5>1 DEF CatalogRow
        <5>3. QED
          BY <5>2, SyncAssumption
      <4>2. CASE found[k] # NULL
        BY <3>1, <4>2, CatalogStays DEF Live, Used
      <4>3. QED
        BY <4>1, <4>2
    <3>4. QED
      BY <2>2, <3>1, <3>2, <3>3 DEF WriteCatalog, RowsOf, Live, Used, Named
  <2>3. CASE WriteSurface(k)
    <3>1. PICK r \in Ids :
            /\ surface' = [surface EXCEPT ![r] =
                 [project |-> project[k], anchor |-> anchor[k], snapshot |-> local[k],
                  live |-> TRUE]]
            /\ record'[k] \in {r, found[k]}
            /\ found[k] = NULL \/ r = found[k]
      BY <2>3, SurfaceWritten
    <3>2. surface'[r] = [project |-> project[k], anchor |-> anchor[k],
                         snapshot |-> local[k], live |-> TRUE]
      BY <3>1 DEF Tables
    <3>3. surface'[r] # NULL
      <4>1. surface'[r] \in SurfaceRow
        <5>1. project[k] \in Projects /\ anchor[k] \in Ids /\ local[k] \in 1..MaxChanges
          BY <2>3 DEF WriteSurface
        <5>2. QED
          BY <3>2, <5>1 DEF SurfaceRow
      <4>2. QED
        BY <4>1, SyncAssumption
    <3>4. QED
      BY <2>3, <3>1, <3>2, <3>3 DEF WriteSurface, RowsOf, Live, Used, Named
  <2>4. CASE Match(k)
    BY <2>4 DEF Match
  <2>5. CASE Command(k) \/ ReadEntry(k) \/ ReadDetail(k) \/ ReadSnapshot(k) \/ FindAnchor(k)
    BY <2>5 DEF Command, Started, ReadEntry, ReadDetail, ReadSnapshot, FindAnchor
  <2>6. CASE CallFails(k) \/ RowIsGone(k)
    BY <2>6 DEF CallFails, RowIsGone
  <2>7. QED
    BY <1>1, <2>1, <2>2, <2>3, <2>4, <2>5, <2>6 DEF Step
<1>2. CASE ~Step(k) /\ HasRead(k)
  BY <1>2, StandsStill DEF AllReported, Reported, Named, Apart, Undisturbed, SameRows
<1>3. QED
  BY <1>1, <1>2, WhoHasRead DEF HasRead

\* After a synchronisation that reports success, and that nobody has overtaken, a
\* row of its project holds what it read, and the report names that row, or, for
\* a row it has created, none.
THEOREM ReportsAreTrue == Spec => []ReportIsTrue
<1>1. Init => AllReported
  BY DEF Init, AllReported, Reported
<1>2. AllReported => ReportIsTrue
  BY DEF AllReported, Reported, ReportIsTrue, Named
<1>3. QED
  BY <1>1, <1>2, ReportedStep, TypedAlways, MatchedAlways, PTL DEF Spec
=============================================================================
