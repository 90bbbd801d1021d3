SPECIFICATION FairSpec
CONSTANTS
  Location <- MCLocation
  RootLocation = ""
  Hint <- MCLocation
  Resolve <- MCResolve
  Token <- MCToken
  Rank <- MCRank
  Index <- MCIndex
  EmptyKey = ""
  LocationRank <- MCLocationRank
  Name = {"foo"}
  NoName = NoName
  NoRef = NoRef
  NoUri = NoUri
  NoKey = NoKey
  Nowhere = Nowhere
  Corpus <- RetryCorpus
  Text <- MCText
  HasLoader = TRUE
  FlakyLoader = TRUE
  MaxCalls = 2
INVARIANTS
  CurrentGeneration
PROPERTIES
  Terminates
