\* one job at a time, in both languages, without dry runs and backfills
SPECIFICATION Spec
CONSTANTS
  Workers = {w1}
  Runs = {}
  NoRun = NoRun
  NoText = NoText
  Kinds = {"ingest", "refresh", "rebuild"}
  Sources = {"store", "page"}
  PageLangs = {"en", "es"}
  Locales = {"en", "es"}
  Relabels = {}
  MaxVersion = 1
  EnChunks = 2
  EsChunks = 1
INVARIANTS ChunksMatchBody
