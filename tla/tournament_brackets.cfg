CONSTANTS
  None = None
  A = A
  B = B
  C = C
  D = D
  E = E
  F = F
  G = G
  H = H
  Contestants <- Players
  Seed <- SeedOf
  Workers = {1, 2}
  Formats <- AllFormats
SPECIFICATION PlayedSpec
INVARIANTS
  BracketTypeOK
  EntriesEarned
  ResultsCarried
  OthersBeaten
  WinnerStands
  DrawFair
  GeneratedStarts
PROPERTIES
  AcknowledgedOnly
  BracketPlayedOut
CHECK_DEADLOCK FALSE
