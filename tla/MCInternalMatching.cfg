SPECIFICATION Spec
CONSTANTS
  Candidate <- Candidates
  Native <- Natives
  Base = 3
  WAD = 2
  MAX_TOKEN_DECIMALS = 3
  CandidateTtl = 2
  NativeTtl = 1
  MillisPerSecond = 2
  MaxTime = 3
  MaxAdds = 4
INVARIANTS MatchHonoursLimits BestOfSnapshot EntriesAccounted
PROPERTIES SweepsExactly
