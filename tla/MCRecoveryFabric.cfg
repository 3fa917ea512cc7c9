\* Every profile, every kind of candidate, every failure.
CONSTANTS
  Event <- Events
  Separated = {}
  None = None
  MaxAppends = 8
  MaxEdits = 0
SPECIFICATION FabricSpec
INVARIANT ResultIsTrue
INVARIANT ResultIsRecorded
INVARIANT JournalIsTrue
INVARIANT ResidueIsUnconcluded
CHECK_DEADLOCK FALSE
