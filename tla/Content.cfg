SPECIFICATION MCSpec
CONSTANTS
  Uploading = {"u", "v"}
  Size <- MCSize
  Documents = {"d", "e"}
  Pieces = {"p", "q"}
  NoPiece = "n"
  MaxFence = 2
  MaxRestarts = 2
  Files = {"f", "g"}
  MaxImports = 3
  MaxParses = 2
  MaxDrafts = 3
  Assets = {"a", "b"}
  Docs = {"d"}
  DOIs = {"x", "y"}
  NoDoi = "nodoi"
  Searchable = {"a"}
  SameDoc <- MCSameDoc
  RetryLimit = 2
  MaxLookups = 2
  Blocks = {"a", "b"}
  Units = {"u1", "u2", "u3"}
  UnitBlock <- MCUnitBlock
  Texts = {"s", "t"}
  NoText = "-"
  Faulty = {"t"}
  Glossary = "g"
  Requested = {"h"}
  MaxSeq = 2
  MaxWork = 3
INVARIANTS
  AcceptedBytesAreKept
  MetadataIsOfTheSource
  SealedTellsTheTruth
  TranslatedBlocksArrive
PROPERTIES
  AttemptsAreFinal
  SourceComesFromLastImport
  HumanWorkStands
  CorrectedSourceIsSound
\* Every component may stop: its uploads, parses, lookups, edits and corrections are bounded.
CHECK_DEADLOCK FALSE
