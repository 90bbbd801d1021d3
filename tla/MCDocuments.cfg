SPECIFICATION FairSpec
CONSTANTS
  Location <- MCLocation
  RootLocation = ""
  Hint <- MCLocation
  Resolve <- MCResolve
  Token <- MCToken
  Rank <- MCRank
  Index <- MCIndex
  EmptyKey = ""
  LocationRank <- MCLocationRank
  Name = {"foo", "bar"}
  NoName = NoName
  NoRef = NoRef
  NoUri = NoUri
  NoKey = NoKey
  Nowhere = Nowhere
  Corpus <- MCCorpus
  Text <- MCText
  HasLoader = FALSE
  FlakyLoader = FALSE
  MaxCalls = 1
INVARIANTS
  TypeOK
  RegisteredXorAwaited
  RefsFollowRegistry
  OwnershipAcyclic
  NoFreedTarget
  NeverUndefined
  RejectsOnlyMeaningless
  AcceptsOnlyMeaningful
  BoundToDesignated
PROPERTIES
  BoundForGood
  KeepsLinks
  Terminates
