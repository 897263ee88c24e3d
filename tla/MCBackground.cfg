SPECIFICATION BackgroundSpec
CONSTANTS
  \* two documents, either of which may be one that cannot be embedded
  Docs = {1, 2}
  Poisons = {{}, {1}}
  Slots = {1, 2}
  Caps = {1, 2}
  MaxRetries = 1
  MaxRev = 1
  MaxEvents = 1
  \* two requests on a document that may have one tag
  TagWriters = {w1, w2}
  Slugs = {a, b}
  Langs = {"en", "es"}
  TagCap = 1
  Origin = Origin
  \* two pulls
  Tags = {m1, m2}
  NoTag = NoTag
  MaxDownloads = 2
  MaxPolls = 1
  \* two calls, the default model and another one, an adapter
  Calls = {c1, c2}
  Models = {q1, g1}
  Pinned = q1
  Adapters = {l1}
  Base = Base
  \* up to three sub-batches
  ChunkCounts = {0, 1, 2, 3, 4, 5}
  BatchSize = 2
  EmbedRetries = 2
INVARIANTS BackgroundTypeOK GatesHold SuccessIsStaged UpstreamPromise
PROPERTIES DuplicateNeedsOverlap CatchupFeedsNothing ResidualIsCaughtUp TagsAsAsked PullingEnds AnswersAsAsked
CHECK_DEADLOCK FALSE
