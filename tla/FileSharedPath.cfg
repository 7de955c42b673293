SPECIFICATION Spec
CONSTANTS
  Users = {u1, u2}
  Shared = repo
  Repos = {u1, u2}
  RepoOf <- ObjectEach
  Values = {v1, v2}
  Inodes = {i1, i2, i3}
  IOFails = FALSE
INVARIANTS
  WritesAreAtomic
