\* two jobs at a time on a page and its translation
SPECIFICATION Spec
CONSTANTS
  Workers = {w1, w2}
  Runs = {r1}
  NoRun = NoRun
  NoText = NoText
  Kinds = {"ingest", "rebuild", "backfill"}
  Sources = {"store"}
  PageLangs = {"en"}
  Locales = {}
  Relabels = {}
  MaxVersion = 1
  EnChunks = 2
  EsChunks = 1
SYMMETRY Interchangeable
INVARIANTS TypeOK RowsAgree
PROPERTIES CopiedOnce CompletedIsFrozen
