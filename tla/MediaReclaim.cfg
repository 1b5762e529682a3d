\* One content under two types, nothing fails.
SPECIFICATION MediaSpec
CONSTANTS
  Assets = {m1, m2}
  Contents = {c1}
  Types = {jpeg, mp4}
  Videos = {mp4}
  Folders = {root, f1}
  Root = root
  Clients = {p1, p2}
  BatchLimit = 1
  Faulty = FALSE
  Nothing = Nothing
SYMMETRY MCSymmetry
INVARIANT IngestedBytesPresent
CHECK_DEADLOCK FALSE
