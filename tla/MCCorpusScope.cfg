\* a dry run of one of two documents that share a url, promoted
SPECIFICATION Spec
CONSTANTS
  Workers = {w1}
  Runs = {r1}
  NoRun = NoRun
  NoText = NoText
  Kinds = {"ingest", "rebuild"}
  Sources = {"store"}
  PageLangs = {"en"}
  Locales = {"es"}
  Relabels = {}
  MaxVersion = 0
  EnChunks = 1
  EsChunks = 1
PROPERTIES OnlyListedRebuilt
