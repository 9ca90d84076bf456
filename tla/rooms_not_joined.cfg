SPECIFICATION FairLiveSpec
CONSTANTS
  c1 = c1  c2 = c2  f1 = f1  f2 = f2  p1 = p1
  Change = {c1}
  Kind <- PatchAddReload
  Reader = {f1}
  MaxFaults = 0
  None = None
  Page = {p1}
  PageKind = {"overview"}
PROPERTY PagesJoin
CHECK_DEADLOCK FALSE
