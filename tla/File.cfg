SPECIFICATION FairSpec
CONSTANTS
  Users = {u1, u2}
  Shared = repo
  Repos = {repo}
  RepoOf <- OneObject
  Values = {v1, v2}
  Inodes = {i1, i2}
  IOFails = TRUE
INVARIANTS
  TypeOK
  TargetNeverTorn
PROPERTIES
  AtomicSpec
  CallsEnd
