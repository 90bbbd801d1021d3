SPECIFICATION FairSpec
CONSTANTS
  Location <- MCLocation
  RootLocation = ""
  Hint <- MCLocation
  Resolve <- MCResolve
  Token <- MCToken
  Rank <- MCRank
  Index <- MCIndex
  EmptyKey = ""
  LocationRank <- MCLocationRank
  Name = {}
  NoName = NoName
  NoRef = NoRef
  NoUri = NoUri
  NoKey = NoKey
  Nowhere = Nowhere
  Corpus <- MCCorpus
  Text <- MCText
  HasLoader = TRUE
  FlakyLoader = FALSE
  MaxCalls = 1
INVARIANTS
  LoadedOnce
  RejectsOnlyMeaningless
  AcceptsOnlyMeaningful
  BoundToDesignated
