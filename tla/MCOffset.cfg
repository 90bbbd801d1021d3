\* A zone less than an hour behind UTC.
SPECIFICATION Spec
CONSTANTS
  Start <- Starts
  Watched <- LastMinutes
  LastYear = 2100
  Zone <- BehindByMinutes
  Slip <- NoSlips
INVARIANT NoFalseNegatives
