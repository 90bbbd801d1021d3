SPECIFICATION FairSpec
CONSTANTS
  Token <- MCToken
  Rank <- MCRank
  Text <- MCText
  Length <- MCLength
  MaxInteger = 6
  NoLimit = NoLimit
  Corpus <- MCCorpus
INVARIANTS
  TypeOK
  EarlierDefaultsStay
  VerdictIsMeaning
  PatchIsMeaning
  AddsOnlyMissing
PROPERTIES
  FailedCaseLeavesNothing
  KeepsPresent
  Settles
