SPECIFICATION FairSpec
CONSTANTS
  u1 = u1  u2 = u2  u3 = u3  t1 = t1  t2 = t2  d1 = d1  d2 = d2  api = api  web = web  db = db
  User = {u1, u2, u3}
  Team = {t1, t2}
  Desk = {d1, d2}
  Owner <- OwnDesks
  Service = {api, web, db}
  FirstUsers <- TwoAdmins
  FirstTeams <- OneTeam
  MaxCalls = 2
  None = None
INVARIANT TypeOK
PROPERTIES NothingElseUndone NamesAreSound ReplacesWhatItRead RevokedRunsOut
