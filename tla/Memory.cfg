SPECIFICATION MCSpec
CONSTANTS
  Session = {s1, s2}
  Key = {uses, mentioned}
  Single = {uses}
  Value = {a, b}
  None = None
  Scenarios <- MCScenarios
  Thread = {"t1", "t2"}
  Process = {"server", "cli"}
  Text = {"a", "b"}
  Batch <- MCBatch
  MaxRetries = 1
  EmbedScenes <- MCEmbedScenes
  Proc = {1, 2}
  Prompt = {"p", "q", "P"}
  KeyOf <- MCKeyOf
  EpisodeId = {"e1", "e2", "e3", "e4"}
  NoRow = NoRow
  Limit = 1
  EpisodeScenes <- MCEpisodeScenes
  Command = {1, 2}
  LastHead = 2
  Size <- MCSize
  IndexScenes <- MCIndexScenes
  File = {"a", "b", "c", "d"}
  Name = {"g", "h", "t"}
  Space = {"S", "T"}
  Assembly = {"dll"}
  Pass = {1, 2}
  ResolverScenes <- MCPrograms
INVARIANTS
  OneOpen OneValueAsOf RetrievesCurrent
  MCEpisodesKept MCCacheSound MCRecordedMeansIndexed
  MCReferencesKept MCPassSettles
PROPERTIES
  PastStays NeverUnanswered
  MCRecallComplete MCCallsReturn MCIndexCatchesUp
