\* Any damage, any failure.
CONSTANTS
  top = top
  outer = outer
  inner = inner
  deep = deep
  git = git
  a = a
  b = b
  rw = rw
  rx = rx
  Place = {top, outer, inner, deep, git}
  Root = Root
  NoPlace = NoPlace
  ParentOf <- MCParentOf
  Hidden = {git}
  Data = {a, b}
  Mode = {rw, rx}
  Captures <- MCCaptures
  Damaged <- MCDamaged
SPECIFICATION FairSpec
INVARIANT RestoredExactly
INVARIANT NothingMadeWorse
PROPERTY Restores
CHECK_DEADLOCK FALSE
