SPECIFICATION LocalSpec
CHECK_DEADLOCK FALSE
CONSTANTS
  Layouts <- Twice
  Contents = {"full", "brief", "odd"}
  Owns <- MCOwns
  Id <- MCId
  Fields = {"overview", "tagline"}
  Own <- MCOwn
  Generic = "movie.nfo"
  Rank <- MCRank
INVARIANT SelectionIsGlobalMinimum
