SPECIFICATION LocalSpec
CHECK_DEADLOCK FALSE
CONSTANTS
  Layouts <- MCLayouts
  Contents = {"full", "brief", "odd"}
  Owns <- MCOwns
  Id <- MCId
  Fields = {"overview", "tagline"}
  Own <- MCOwn
  Generic = "movie.nfo"
  Rank <- MCRank
INVARIANTS SelectedRowIsPublished SettledReadsAsFreshImport SettledItemsAreSkipped
PROPERTIES BrokenKeepsLastGood
