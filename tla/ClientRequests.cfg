SPECIFICATION Spec
CONSTANTS
  Texts <- MCTexts
  Patterns <- MCPatterns
  Moments <- MCMoments
  BrokenDown <- MCBrokenDown
  Messages <- MCMessages
  Written <- MCWritten
  KnownPaths <- MCKnownPaths
  Selections <- MCSelections
  StringValues <- MCStringValues
  DataValues <- MCDataValues
  TimeValues <- MCTimeValues
  MaxSelected = 2
  MaxLimit = 2
CHECK_DEADLOCK FALSE
INVARIANTS
  CriterionSelects
  LikeMatchesPattern
  PagesPartition
  SettingsRoundTrip
  SelectionRoundTrip
  ValuesRoundTrip
