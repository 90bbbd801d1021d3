SPECIFICATION FairSpec
CONSTANTS
  Location <- MCLocation
  RootLocation = ""
  Hint <- MCLocation
  Resolve <- MCResolve
  Token <- MCToken
  Rank <- MCRank
  Index <- MCIndex
  EmptyKey = ""
  LocationRank <- MCLocationRank
  Name = {"foo", "bar"}
  NoName = NoName
  NoRef = NoRef
  NoUri = NoUri
  NoKey = NoKey
  Nowhere = Nowhere
  Corpus <- DanglingCorpus
  Text <- MCText
  HasLoader = FALSE
  FlakyLoader = FALSE
  MaxCalls = 1
INVARIANT NeverUndefined
