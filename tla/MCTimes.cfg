\* Days, zones and slips; see MCTimes.
SPECIFICATION Spec
CONSTANTS
  Start <- Starts
  Watched <- LastMinutes
  LastYear = 2100
  Zone <- SomeZones
  Slip <- Slips
INVARIANTS NoFalseNegatives AcceptsOnlyMoments
