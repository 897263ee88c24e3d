\* one job at a time on a page and its translation, dry runs and relabelling
SPECIFICATION Spec
CONSTANTS
  Workers = {w1}
  Runs = {r1}
  NoRun = NoRun
  NoText = NoText
  Kinds = {"ingest", "rebuild"}
  Sources = {"store"}
  PageLangs = {"en"}
  Locales = {"es"}
  Relabels = {"es"}
  MaxVersion = 0
  EnChunks = 2
  EsChunks = 1
INVARIANTS RowsAgree
