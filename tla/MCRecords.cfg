SPECIFICATION RecordsSpec
CONSTANTS
  Workers = {w1, w2}
  MaxCrashes = 2
  Nil = Nil
  Tables <- CopiedTables
  Keys = {"p1", "p2", "a1", "a2"}
  OwnKeys = {"n1"}
  TableOf <- TableOfRow
  ParentOf <- ParentOfRow
  TenantOf <- TenantOfRow
  UserOf <- UserOfRow
  Nullable = {"prospects"}
  TenantIds <- MappedTenant
  UserSubjects <- MappedUser
  Reattributions <- Reattributed
  Lasting <- Durations
  Starts <- StartsOf
  Total = 145
  Deltas = {1, 7}
  MaxInputs = 3
  Measures = {Unmeasured, 30, 100}
  Unmeasured = Unmeasured
  MaxDefects = 4
  Prospects = {p1, p2, p3}
  Scores = {0, 1, 2}
  Statuses = {"qualified", "analysis_ready"}
  Times = {1, 2}
  Limit = 2
  Analysts = {t1, t2}
  Nothing = Nothing
  MaxWrites = 2
  Updaters = {t1, t2}
  Fields = {"minimum_score", "daily_delivery_limit"}
  Values = {1, 2}
  Defaults <- DefaultRules
  Unset = Unset
  MaxUpdates = 3
INVARIANTS TypesOK StampTruthful ServesMigrated OrphanedByCrash ImportSound ReconciledExact FilmInSync StoryComplete NothingHidden  PolicyMatchesTrail
PROPERTIES EventuallyServes FilmEnds WorseNeverRanksLower
CHECK_DEADLOCK FALSE
