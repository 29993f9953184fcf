CONSTANTS
  None = None
  A = A
  B = B
  C = C
  D = D
  E = E
  F = F
  G = G
  H = H
  Contestants <- Players
  Seed <- SeedOf
  FfaFormats <- AllFormats
SPECIFICATION PlayedSpec
INVARIANTS
  FfaTypeOK
  PlacesEarned
  OnePlaceEach
  ChampionStands
PROPERTIES
  FfaPlayedOut
CHECK_DEADLOCK FALSE
