SPECIFICATION MCSpec
CONSTANTS
  Root = {"r1", "r2"}
  Slug = {s1, s2}
  None = None
  MaxTimer = 2
  Scenarios <- MCScenarios
  Client = {"c1", "c2"}
  AutostartScenes <- MCAutostartScenes
  Hook <- MCHook
  Trigger = {"old", "new"}
  Foreign = {"f1", "f2"}
  MaxCommands = 3
  MaxEdits = 2
  Extra = {"dotnet", "hybrid"}
  Tool = {"plugin", "model"}
  Project = {"docker", "code-memory"}
  COMPOSE_PROJECT = "code-memory"
  Absent = "absent"
  Unlabelled = "unlabelled"
  UpdaterScenes <- MCUpdaterScenes
  MaxRuns = 2
  Path <- MCPath
  EXCLUDED_ROOT_DIRS = {".git", "data"}
  DEFAULT_IGNORE_DIRS = {".git", "vendor"}
  Repos <- MCRepos
INVARIANTS
  MCRegistryKept MCOneBlock MCUpdatesKeep MCFollowedAtRest
PROPERTIES
  Settles ChangesAreLoaded
  MCBootedIsWatched MCForeignKept 
CHECK_DEADLOCK FALSE
