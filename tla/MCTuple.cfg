SPECIFICATION FairSpec
CONSTANTS
  Token <- MCToken
  Rank <- MCRank
  Text <- MCText
  Length <- MCLength
  MaxInteger = 6
  NoLimit = NoLimit
  Corpus <- TupleCases
PROPERTY KeepsPresent
