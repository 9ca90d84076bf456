SPECIFICATION FairLiveSpec
CONSTANTS
  c1 = c1  c2 = c2  f1 = f1  f2 = f2  p1 = p1
  Change = {c1}
  Kind <- PatchAddReload
  Reader = {f1, f2}
  MaxFaults = 1
  None = None
  Page = {p1}
  PageKind <- Pages
INVARIANTS LiveTypeOK AnswersAreFresh
PROPERTIES QuietChangeIsShown PagesCatchUp
CHECK_DEADLOCK FALSE
