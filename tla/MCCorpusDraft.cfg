\* a page ingested in English with a Spanish translation, and rebuilds of both
SPECIFICATION Spec
CONSTANTS
  Workers = {w1}
  Runs = {}
  NoRun = NoRun
  NoText = NoText
  Kinds = {"ingest", "rebuild"}
  Sources = {"store"}
  PageLangs = {"en"}
  Locales = {"es"}
  Relabels = {}
  MaxVersion = 0
  EnChunks = 1
  EsChunks = 1
PROPERTIES DraftUntilPatched
