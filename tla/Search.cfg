SPECIFICATION Spec
CONSTANTS
  Texts <- SomeTexts
  Lower <- SomeLower
  AsciiLower <- SomeAsciiLower
  Collate <- SomeCollate
  Patterns <- SomePatterns
  Milli = 2
  Minute = 4
  Load <- SomeDeliveries
  Searches <- SomeSearches
  Backends = {"filesystem", "mysql", "clickhouse"}
  Limit = 2
  QueueSize = 2
  Day <- Calendar
  Times = {1, 2, 3, 4, 5, 6, 7, 8, 9, 10, 11, 12, 13, 14, 15, 16, 17, 18, 19, 20}
  MaxQueries = 3
  MaxLost = 1
INVARIANTS TypeOK BatchIsWhole FoundByItsFields AnswerIsRight PagesCoverOld
CHECK_DEADLOCK FALSE
