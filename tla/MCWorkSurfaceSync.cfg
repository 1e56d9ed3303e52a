SPECIFICATION Spec
CONSTANTS
  NULL = NULL
  j1 = j1
  j2 = j2
  p1 = p1
  p2 = p2
  r1 = r1
  r2 = r2
  r3 = r3
  Projects <- MCProjects
  Jobs <- MCJobs
  Ids <- MCIds
  Titles <- MCTitles
  Catalogs <- MCCatalogs
  CatalogPage = 2
  SurfacePage = 1
  MaxChanges = 3
  MaxFaults = 1
SYMMETRY Symmetry
INVARIANTS
  TypeOK
  SurfaceIsAnchored
  ReportIsTrue
PROPERTIES
  CreatesOnlyWhatIsMissing
  SurfaceGoesForward
  ArchivedStaysArchived
CHECK_DEADLOCK FALSE
