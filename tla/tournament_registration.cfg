CONSTANTS
  None = None
  Tournament = Tournament
  Users = {u1, u2, u3}
  Teams = {t1, t2}
  Workers = {w1, w2}
  Limits <- BothLimits
  MaxRows = 2
SPECIFICATION HistorySpec
SYMMETRY Symmetry
INVARIANTS
  RegistrationTypeOK
  WithinLimits
  TeamsNotOverfull
  MembersOfActiveTeams
  CaptainLeads
PROPERTIES
  RosterKept
  TeamLeftFirst
CHECK_DEADLOCK FALSE
