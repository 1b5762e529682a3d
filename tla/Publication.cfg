\* Two items of one content under two types, and one call at a time: a carousel of
\* both, or a story of the first.
SPECIFICATION Spec
CONSTANTS
  Assets = {m1, m2}
  Contents = {c1, c2}
  Types = {jpeg, mp4}
  Videos = {mp4}
  Folders = {root, f1}
  Root = root
  Clients = {p1, p2}
  BatchLimit = 1
  Faulty = TRUE
  Nothing = Nothing
  Jobs = {j1}
  Payloads <- MCPayloads
  Refusals = {"dead_token", "bad_request", "outage"}
  MaxPolls = 2
SYMMETRY MCSymmetry
CONSTRAINT MCOneBesideACall
INVARIANTS TypeOK LiveHasBytes PostedAsAsked ResultMatchesPost
PROPERTIES ReclaimSparesLive ImplementsPostOnce
CHECK_DEADLOCK FALSE
